---- MODULE Spec2Model ----
(***************************************************************************)
(* tle.js: the TLE record parser / validator (parsing.js), and the         *)
(* memoization layer of the SGP4 adapter (sgp4.js).                        *)
(*                                                                         *)
(* JavaScript strings are modelled as sequences of one-character strings,  *)
(* so that split, trim, startsWith, substr and the checksum are computed   *)
(* character by character, as the code computes them.  Objects live in a   *)
(* heap and are denoted by references (heap indices), so that "the very    *)
(* same object" is a statement about references, not about equal fields.   *)
(***************************************************************************)
EXTENDS Integers, Sequences, FiniteSets, TLC

VARIABLES
    tleCache,              \* parsing.js: let tleCache = {}   (key -> reference)
    heap,                  \* the objects allocated so far (reference = index)
    cachedSatelliteInfo,   \* sgp4.js: key -> SatelliteInfo
    cachedAntemeridianCrossings,  \* sgp4.js: key -> crossing times
    cachedOrbitTracks,     \* sgp4.js: key -> coordinate list
    cachedGroundTrack,     \* sgp4.js: declared, never written
    caches,                \* sgp4.js: const caches = [...], what each slot holds
    task,                  \* the getOrbitTrack call suspended at an await
    last,                  \* the call that completed last: [op, arg, out]
    prev,                  \* the call that completed before it
    nCalls                 \* number of calls made so far

vars == <<tleCache, heap, cachedSatelliteInfo, cachedAntemeridianCrossings,
          cachedOrbitTracks, cachedGroundTrack, caches, task, last, prev,
          nCalls>>

parseVars == <<tleCache, heap>>
sgpVars == <<cachedSatelliteInfo, cachedAntemeridianCrossings,
             cachedOrbitTracks, cachedGroundTrack, caches, task>>

(***************************************************************************)
(* Bounds of the model.                                                    *)
(***************************************************************************)
MaxCalls == 2      \* calls per run of the parsing specification
MaxSgpCalls == 3   \* calls per run of the sgp4 specification

(***************************************************************************)
(* Strings.                                                                *)
(***************************************************************************)
Digits == {"0", "1", "2", "3", "4", "5", "6", "7", "8", "9"}

\* String.prototype.trim removes white space and line terminators.
IsWhitespace(c) == c \in {" ", "\t", "\n", "\r"}

\* parseInt(c, 10) of a one-character string; NaN is modelled as -1.
NaN == -1

ParseIntChar(c) ==
    CASE c = "0" -> 0 [] c = "1" -> 1 [] c = "2" -> 2 [] c = "3" -> 3
      [] c = "4" -> 4 [] c = "5" -> 5 [] c = "6" -> 6 [] c = "7" -> 7
      [] c = "8" -> 8 [] c = "9" -> 9 [] OTHER -> NaN

\* String(n) for the small non-negative integers used as non-string input.
NumberToString(n) ==
    CASE n = 0 -> <<"0">> [] n = 1 -> <<"1">> [] n = 2 -> <<"2">>
      [] n = 3 -> <<"3">> [] n = 4 -> <<"4">> [] n = 5 -> <<"5">>
      [] n = 6 -> <<"6">> [] n = 7 -> <<"7">> [] n = 8 -> <<"8">>
      [] OTHER -> <<"9">>

\* String(undefined), the property name an undefined cache key becomes.
UndefinedKey == <<"u", "n", "d", "e", "f", "i", "n", "e", "d">>

RECURSIVE TrimStart(_)
TrimStart(s) ==
    IF s # <<>> /\ IsWhitespace(Head(s)) THEN TrimStart(Tail(s)) ELSE s

RECURSIVE TrimEnd(_)
TrimEnd(s) ==
    IF s # <<>> /\ IsWhitespace(s[Len(s)])
    THEN TrimEnd(SubSeq(s, 1, Len(s) - 1))
    ELSE s

Trim(s) == TrimEnd(TrimStart(s))

StartsWith(s, p) == Len(s) >= Len(p) /\ SubSeq(s, 1, Len(p)) = p

\* s.substr(n): the characters from (0-based) position n on.
Substr(s, n) == SubSeq(s, n + 1, Len(s))

\* s.split("\n"): always at least one piece; k pieces for k-1 newlines.
RECURSIVE SplitNL(_, _, _)
SplitNL(s, cur, acc) ==
    IF s = <<>> THEN Append(acc, cur)
    ELSE IF Head(s) = "\n" THEN SplitNL(Tail(s), <<>>, Append(acc, cur))
    ELSE SplitNL(Tail(s), Append(cur, Head(s)), acc)

Split(s) == SplitNL(s, <<>>, <<>>)

\* lines.join("\n"), used to build string inputs from lists of lines.
RECURSIVE Join(_)
Join(lines) ==
    IF lines = <<>> THEN <<>>
    ELSE IF Len(lines) = 1 THEN lines[1]
    ELSE lines[1] \o <<"\n">> \o Join(Tail(lines))

\* array.map(line => line.trim())
MapTrim(arr) == [i \in 1..Len(arr) |-> Trim(arr[i])]

(***************************************************************************)
(* Values.                                                                 *)
(***************************************************************************)
\* An argument of parseTLE / isValidTLE: a string, an array of strings, an
\* object (by reference) or a number.  getType(input) is the type field.
StrIn(s) == [type |-> "string", str |-> s, arr |-> <<>>, ref |-> 0, num |-> 0]
ArrIn(a) == [type |-> "array", str |-> <<>>, arr |-> a, ref |-> 0, num |-> 0]
ObjIn(r) == [type |-> "object", str |-> <<>>, arr |-> <<>>, ref |-> r, num |-> 0]
NumIn(n) == [type |-> "number", str |-> <<>>, arr |-> <<>>, ref |-> 0, num |-> n]

getType(input) == input.type

\* An object of the heap: the fields parsing.js reads or writes.
Obj(hasTle, tle, hasName, name, hasError) ==
    [hasTle |-> hasTle, tle |-> tle, hasName |-> hasName, name |-> name,
     hasError |-> hasError]

\* The outcome of a call: a returned value or a thrown error.
Ret(v) == [kind |-> "return", val |-> v, msg |-> ""]
Throw(m) == [kind |-> "throw", val |-> 0, msg |-> m]

ERR_NOT_PARSED_OBJECT == "Input object is malformed"
ERR_TYPE == "Source TLE must be of type [array, string, object]"
ERR_EMPTY == "Character array empty!"
TYPE_ERROR == "TypeError: cannot read properties of undefined"

acceptedTLETypes == {"array", "string", "object"}

(***************************************************************************)
(* parsing.js                                                              *)
(***************************************************************************)
isTLEObj(obj, hp) ==
    /\ obj.type = "object"
    /\ obj.ref \in 1..Len(hp)
    /\ hp[obj.ref].hasTle
    /\ Len(hp[obj.ref].tle) = 2

\* The property name under which tleCache holds the parse of sourceTLE.
getTLECacheKey(type, sourceTLE) ==
    IF type = "array"
    THEN LET a == sourceTLE.arr
             i == IF Len(a) = 3 THEN 2 ELSE 1
         IN  IF i <= Len(a) THEN a[i] ELSE UndefinedKey
    ELSE IF type = "string" THEN sourceTLE.str
    ELSE NumberToString(sourceTLE.num)

\* charArr.reduce(...): digits count their value, "-" counts 1, the rest 0.
RECURSIVE ChecksumSum(_)
ChecksumSum(chars) ==
    IF chars = <<>> THEN 0
    ELSE LET val == chars[Len(chars)]
             parsedSum == ChecksumSum(SubSeq(chars, 1, Len(chars) - 1))
         IN  IF ParseIntChar(val) # NaN THEN parsedSum + ParseIntChar(val)
             ELSE IF val = "-" THEN parsedSum + 1
             ELSE parsedSum

\* computeChecksum without `charArr.splice(charArr.length - 1, 1)`: the
\* trailing checksum digit is summed with the rest.
computeChecksumKeepingLast(tleLineStr) ==
    IF Len(tleLineStr) = 0 THEN Throw(ERR_EMPTY)
    ELSE Ret(ChecksumSum(tleLineStr) % 10)

computeChecksum(tleLineStr) ==
    LET charArr == SubSeq(tleLineStr, 1, Len(tleLineStr) - 1)
    IN  IF Len(charArr) = 0 THEN Throw(ERR_EMPTY)
        ELSE Ret(ChecksumSum(charArr) % 10)

lineNumberIsValid(tleObj, lineNumber) ==
    LET tle == tleObj.tle
    IN  IF lineNumber > Len(tle) THEN Throw(TYPE_ERROR)
        ELSE IF tle[lineNumber] = <<>> THEN Ret(FALSE)
        ELSE Ret(lineNumber = ParseIntChar(tle[lineNumber][1]))

checksumIsValid(tleObj, lineNumber) ==
    LET tle == tleObj.tle
        tleLine == tle[lineNumber]
        checksumInTLE ==
            IF tleLine = <<>> THEN NaN ELSE ParseIntChar(tleLine[Len(tleLine)])
        computedChecksum == computeChecksum(tleLine)
    IN  IF computedChecksum.kind = "throw" THEN computedChecksum
        ELSE Ret(computedChecksum.val = checksumInTLE)

\* The checks of isValidTLE on the record parseTLE returned.
validityChecks(tleObj) ==
    LET line1NumberIsValid == lineNumberIsValid(tleObj, 1)
        line2NumberIsValid == lineNumberIsValid(tleObj, 2)
        line1ChecksumIsValid == checksumIsValid(tleObj, 1)
        line2ChecksumIsValid == checksumIsValid(tleObj, 2)
    IN  IF line1NumberIsValid.kind = "throw" THEN line1NumberIsValid
        ELSE IF line2NumberIsValid.kind = "throw" THEN line2NumberIsValid
        ELSE IF ~line1NumberIsValid.val \/ ~line2NumberIsValid.val
             THEN Ret(FALSE)
        ELSE IF line1ChecksumIsValid.kind = "throw" THEN line1ChecksumIsValid
        ELSE IF line2ChecksumIsValid.kind = "throw" THEN line2ChecksumIsValid
        ELSE IF ~line1ChecksumIsValid.val \/ ~line2ChecksumIsValid.val
             THEN Ret(FALSE)
        ELSE Ret(TRUE)

\* The name line of a 3-line TLE: trimmed, then a leading "0 " is cut off.
parseName(nameLine) ==
    LET name == Trim(nameLine)
    IN  IF StartsWith(name, <<"0", " ">>) THEN Substr(name, 2) ELSE name

\* The record parseTLE builds on a cache miss (before the validity check).
buildOutput(type, sourceTLE) ==
    LET tleArray == IF type = "string" THEN Split(sourceTLE.str)
                    ELSE sourceTLE.arr
    IN  IF Len(tleArray) = 3
        THEN Obj(TRUE, MapTrim(Tail(tleArray)), TRUE, parseName(tleArray[1]),
                 FALSE)
        ELSE Obj(TRUE, MapTrim(tleArray), FALSE, <<>>, FALSE)

\* tleCache[cacheKey] = output
cachePut(cache, key, r) == (key :> r) @@ cache

\* parseTLE with fastParse = false, after isValidTLE(output.tle) gave v: the
\* error propagates, or output (at reference r) gets its error mark and is
\* cached.
validateOutput(v, r, cacheKey) ==
    IF v.out.kind = "throw" THEN v
    ELSE [out |-> Ret(r), cache |-> cachePut(v.cache, cacheKey, r),
          heap |-> [v.heap EXCEPT ![r].hasError = ~v.out.val]]

\* isValidTLE after its parseTLE call gave p.
checkParsed(p) ==
    IF p.out.kind = "throw" THEN [p EXCEPT !.out = Ret(FALSE)]
    ELSE [p EXCEPT !.out = validityChecks(p.heap[p.out.val])]

\* parseTLE and isValidTLE call each other (parseTLE with fastParse = false
\* validates its output).  Both return the outcome together with the parse
\* cache and the heap as the call leaves them.
RECURSIVE parseTLE(_, _, _, _)
RECURSIVE isValidTLE(_, _, _)

parseTLE(sourceTLE, fastParse, cache, hp) ==
    LET type == getType(sourceTLE)
        alreadyParsed == isTLEObj(sourceTLE, hp)
        cacheKey == getTLECacheKey(type, sourceTLE)
        same(out) == [out |-> out, cache |-> cache, heap |-> hp]
        output == buildOutput(type, sourceTLE)
        r == Len(hp) + 1
    IN  IF alreadyParsed THEN same(Ret(sourceTLE.ref))
        ELSE IF type = "object" THEN same(Throw(ERR_NOT_PARSED_OBJECT))
        ELSE IF cacheKey \in DOMAIN cache THEN same(Ret(cache[cacheKey]))
        ELSE IF type \notin acceptedTLETypes THEN same(Throw(ERR_TYPE))
        ELSE IF fastParse
        THEN [out |-> Ret(r), cache |-> cachePut(cache, cacheKey, r),
              heap |-> Append(hp, output)]
        ELSE validateOutput(isValidTLE(ArrIn(output.tle), cache,
                                       Append(hp, output)),
                            r, cacheKey)

isValidTLE(rawTLE, cache, hp) == checkParsed(parseTLE(rawTLE, TRUE, cache, hp))

(***************************************************************************)
(* The TLE lines and names the inputs are built from.                      *)
(***************************************************************************)
L1 == <<"1", "-", "2">>        \* line 1, checksum 1 + 1 = 2
L1x == <<"1", "-", "3">>       \* L1 with its checksum digit changed
L1pad == <<" ", "1", "-", "2", " ">>
L2 == <<"2", " ", "2">>        \* line 2, checksum 2
L2b == <<"2", "0", "2">>       \* another valid line 2
L2x == <<"2", " ", "3">>       \* L2 with its checksum digit changed
L2pad == <<"2", " ", "2", " ">>
NameA == <<"A">>
Name0A == <<"0", " ", "A">>    \* name with the "0 " line number
Name00A == <<"0", " ", " ", "A">>
NamePad == <<" ", "A", " ">>
L2dec == <<"2", "-", "3">>    \* a line 2 the propagator rejects (decayed)
L1b == <<"1", "0", "1">>       \* the line 1 of another satellite
L2slow == <<"2", "1", "3">>    \* a satellite that takes 27 minutes a turn
L2far == <<"2", "2", "4">>     \* a satellite that takes 50 hours a turn
L1c == <<"1", "1", "2">>       \* the line 1 of a third satellite
L1d == <<"1", "2", "3">>       \* the line 1 of a fourth satellite
L2vfar == <<"2", "3", "5">>    \* a satellite that takes 70 hours a turn

(***************************************************************************)
(* Numbers and their text, as template literals print them.                *)
(***************************************************************************)
\* An optional number: <<>> is undefined, <<v>> is the number v.
Undefined == <<>>
Num(v) == <<v>>

\* !x for an optional number: undefined and 0 are falsy.
Falsy(x) == x = Undefined \/ x[1] = 0

DigitChar(d) ==
    CASE d = 0 -> "0" [] d = 1 -> "1" [] d = 2 -> "2" [] d = 3 -> "3"
      [] d = 4 -> "4" [] d = 5 -> "5" [] d = 6 -> "6" [] d = 7 -> "7"
      [] d = 8 -> "8" [] OTHER -> "9"

RECURSIVE NatToString(_)
NatToString(n) ==
    IF n < 10 THEN <<DigitChar(n)>>
    ELSE Append(NatToString(n \div 10), DigitChar(n % 10))

IntToString(n) == IF n < 0 THEN <<"-">> \o NatToString(-n) ELSE NatToString(n)

\* `${x}` for an optional number.
Interpolate(x) == IF x = Undefined THEN UndefinedKey ELSE IntToString(x[1])

BoolToString(b) ==
    IF b THEN <<"t", "r", "u", "e">> ELSE <<"f", "a", "l", "s", "e">>

\* A time that need not be a whole number of milliseconds is counted in
\* ticks: halving the search step of 180000 ms nine times leaves sixteenths.
TicksPerMS == 16

Ticks(ms) == TicksPerMS * ms

\* new Date(timestamp) drops the fraction of a millisecond, towards zero.
DateOf(ticks) ==
    IF ticks >= 0 THEN ticks \div TicksPerMS ELSE -((-ticks) \div TicksPerMS)

\* The decimal digits of n / 10^k for 0 < n < 10^k, without trailing zeros.
RECURSIVE FractionDigits(_, _)
FractionDigits(n, k) ==
    IF n % 10 = 0 THEN FractionDigits(n \div 10, k - 1)
    ELSE IF k = 1 THEN <<DigitChar(n)>>
    ELSE Append(FractionDigits(n \div 10, k - 1), DigitChar(n % 10))

\* `${timestamp}` of a time in ticks: 5625 ticks read "351.5625".
TimeToString(ticks) ==
    LET a == IF ticks < 0 THEN -ticks ELSE ticks
        frac == a % TicksPerMS
    IN  (IF ticks < 0 THEN <<"-">> ELSE <<>>)
            \o NatToString(a \div TicksPerMS)
            \o (IF frac = 0 THEN <<>>
                ELSE <<".">> \o FractionDigits(frac * (10000 \div TicksPerMS), 4))

\* (ms / 1000).toFixed(): the nearest integer, halves away from zero, and a
\* negative value keeps its sign even when it rounds to zero.
ToFixedSeconds(ms) ==
    IF ms < 0 THEN <<"-">> \o NatToString((500 - ms) \div 1000)
    ELSE NatToString((ms + 500) \div 1000)

(***************************************************************************)
(* satellite.js (external): the propagator, as a fixed deterministic       *)
(* function of the two TLE lines and the time.  Line 1 fixes where the     *)
(* satellite is at time 0, line 2 how fast its longitude advances.         *)
(***************************************************************************)
twoline2satrec(line1, line2) ==
    [line1 |-> line1, line2 |-> line2,
     error |-> IF line2 = L2dec THEN 6 ELSE 0]

\* The satellite advances DriftOfLine degrees of longitude every
\* DriftSpanOfLine milliseconds (0 degrees: geostationary).
DriftOfLine(line2) ==
    IF line2 = L2 THEN 30
    ELSE IF line2 = L2b THEN 0
    ELSE IF line2 = L2slow \/ line2 = L2far \/ line2 = L2vfar THEN 1
    ELSE 45

DriftSpanOfLine(line2) ==
    IF line2 = L2slow THEN 4500
    ELSE IF line2 = L2far THEN 500000
    ELSE IF line2 = L2vfar THEN 700000
    ELSE 500

DriftOf(satrec) == DriftOfLine(satrec.line2)

StartLngOf(satrec) == IF satrec.line1 = L1 THEN 110 ELSE 20

\* Whole degrees advanced since time 0: floor(drift * timestamp / span).
AdvanceOf(satrec, timestamp) ==
    LET span == DriftSpanOfLine(satrec.line2)
    IN  DriftOf(satrec) * (timestamp \div span)
            + (DriftOf(satrec) * (timestamp % span)) \div span

\* degreesLong(eciToGeodetic(propagate(satrec, date)).longitude), in -180..179
propagateLng(satrec, timestamp) ==
    ((StartLngOf(satrec) + AdvanceOf(satrec, timestamp) + 180) % 360) - 180

\* degreesLat(eciToGeodetic(propagate(satrec, date)).latitude)
propagateLat(satrec, timestamp) == AdvanceOf(satrec, timestamp) % 50

_SAT_REC_ERRORS(code) ==
    CASE code = 1 -> "Mean elements, ecc >= 1.0 or ecc < -0.001 or a < 0.95 er"
      [] code = 2 -> "Mean motion less than 0.0"
      [] code = 3 -> "Pert elements, ecc < 0.0  or  ecc > 1.0"
      [] code = 4 -> "Semi-latus rectum < 0.0"
      [] code = 5 -> "Epoch elements are sub-orbital"
      [] code = 6 -> "Satellite has decayed"
      [] OTHER -> "Problematic TLE with unknown error."

(***************************************************************************)
(* sgp4.js                                                                 *)
(***************************************************************************)
\* Observer position used when an argument is missing or 0: latitude and
\* longitude in units of 1e-7 degree, height in units of 10 m.
DefaultObserverLat == 369613422
DefaultObserverLng == -1220308000
DefaultObserverHeight == 37

\* const caches = [cachedSatelliteInfo, ...]: each slot holds either the
\* object the module variable of that name holds, or an object of its own.
ModuleCaches ==
    <<"cachedSatelliteInfo", "cachedAntemeridianCrossings",
      "cachedOrbitTracks", "cachedGroundTrack">>
OwnEmptyObject == "{}"

_getObjLength(obj) == Cardinality(DOMAIN obj)

\* getCacheSizes(): caches.map(_getObjLength)
getCacheSizes(slots, info, crossings, tracks, ground) ==
    [i \in 1..4 |->
        IF slots[i] = "cachedSatelliteInfo" THEN _getObjLength(info)
        ELSE IF slots[i] = "cachedAntemeridianCrossings"
             THEN _getObjLength(crossings)
        ELSE IF slots[i] = "cachedOrbitTracks" THEN _getObjLength(tracks)
        ELSE IF slots[i] = "cachedGroundTrack" THEN _getObjLength(ground)
        ELSE 0]

\* clearCache(): caches.forEach((_cache, idx) => { caches[idx] = {}; })
clearCache(slots) == [i \in 1..Len(slots) |-> OwnEmptyObject]

_isPositive(num) == num >= 0

Abs(x) == IF x < 0 THEN -x ELSE x

\* The longitudes are optional numbers (lastLng is undefined at first).
_crossesAntemeridian(longitude1, longitude2) ==
    IF Falsy(longitude1) \/ Falsy(longitude2) THEN FALSE
    ELSE IF _isPositive(longitude1[1]) = _isPositive(longitude2[1]) THEN FALSE
    ELSE Abs(longitude1[1]) > 100

\* `${tle[0]}-${timestamp}-${observerLat}-${observerLng}\n-${observerHeight}`
satelliteInfoKey(tle, timestamp, observerLat, observerLng, observerHeight) ==
    (IF Len(tle) >= 1 THEN tle[1] ELSE UndefinedKey) \o <<"-">>
        \o TimeToString(timestamp) \o <<"-">> \o Interpolate(observerLat)
        \o <<"-">> \o Interpolate(observerLng) \o <<"\n", "-">>
        \o Interpolate(observerHeight)

\* The SatelliteInfo computed from a satellite record.  Look angles, height
\* and velocity are kept as the terms they are computed from.
\* Observer longitudes count 1e-7 degree.
UnitsPerDegree == 10000000

\* radiansToDegrees(lookAngles.elevation), in whole degrees: 90 above the
\* observer's meridian, one degree less for every degree of longitude the
\* satellite is away from it.
elevationOf(satrec, timestamp, obsLng) ==
    90 - Abs(propagateLng(satrec, timestamp) - obsLng \div UnitsPerDegree)

computeSatelliteInfo(satrec, timestamp, obsLat, obsLng, obsHeight) ==
    [lng |-> propagateLng(satrec, timestamp),
     lat |-> propagateLat(satrec, timestamp),
     elevation |-> elevationOf(satrec, timestamp, obsLng),
     lookAngles |-> <<satrec.line1, satrec.line2, timestamp,
                      obsLat, obsLng, obsHeight>>,
     position |-> <<satrec.line1, satrec.line2, timestamp>>]

\* The state the sgp4 functions read and write: parse cache, heap, and the
\* satellite-info cache.  Every function returns it with its outcome.
SgpState(cache, hp, info) == [cache |-> cache, heap |-> hp, info |-> info]

\* getSatelliteInfo after its parseTLE call gave p; timestamp is in ticks.
satelliteInfoOfParsed(p, timestamp, observerLat, observerLng, observerHeight, info) ==
    LET st1 == SgpState(p.cache, p.heap, info)
        tle == p.heap[p.out.val].tle
        parseError == p.heap[p.out.val].hasError
        obsLat == IF Falsy(observerLat) THEN DefaultObserverLat
                  ELSE observerLat[1]
        obsLng == IF Falsy(observerLng) THEN DefaultObserverLng
                  ELSE observerLng[1]
        obsHeight == IF Falsy(observerHeight) THEN DefaultObserverHeight
                     ELSE observerHeight[1]
        cacheKey == satelliteInfoKey(tle, timestamp, observerLat, observerLng,
                                     observerHeight)
        satrec == twoline2satrec(tle[1], tle[2])
        output == computeSatelliteInfo(satrec, DateOf(timestamp), obsLat,
                                       obsLng, obsHeight)
    IN  IF p.out.kind = "throw" THEN [out |-> p.out, st |-> st1, hit |-> FALSE]
        ELSE IF parseError
             THEN [out |-> Throw("TLE parse error: bad TLE"), st |-> st1,
                   hit |-> FALSE]
        ELSE IF cacheKey \in DOMAIN info
             THEN [out |-> Ret(info[cacheKey]), st |-> st1, hit |-> TRUE]
        ELSE IF Len(tle) < 2
             THEN [out |-> Throw(TYPE_ERROR), st |-> st1, hit |-> FALSE]
        ELSE IF satrec.error # 0
             THEN [out |-> Throw(_SAT_REC_ERRORS(satrec.error)), st |-> st1,
                   hit |-> FALSE]
        ELSE [out |-> Ret(output),
              st |-> SgpState(p.cache, p.heap,
                              cachePut(info, cacheKey, output)),
              hit |-> FALSE]

\* getSatelliteInfo with rawTimestamp in ticks.
getSatelliteInfoAt(rawTLE, rawTimestamp, observerLat, observerLng, observerHeight, now, st) ==
    satelliteInfoOfParsed(parseTLE(rawTLE, TRUE, st.cache, st.heap),
                          IF Falsy(rawTimestamp) THEN Ticks(now)
                          ELSE rawTimestamp[1],
                          observerLat, observerLng, observerHeight, st.info)

\* An optional number of milliseconds in ticks.
InTicks(x) == IF x = Undefined THEN Undefined ELSE Num(Ticks(x[1]))

getSatelliteInfo(rawTLE, rawTimestamp, observerLat, observerLng, observerHeight, now, st) ==
    getSatelliteInfoAt(rawTLE, InTicks(rawTimestamp), observerLat, observerLng,
                       observerHeight, now, st)

\* [lng, lat] of the SatelliteInfo outcome r.
lngLatOf(r) ==
    IF r.out.kind = "throw" THEN r
    ELSE [r EXCEPT !.out = Ret(<<r.out.val.lng, r.out.val.lat>>)]

\* getLngLat(tle, optionalTimestamp): [lng, lat] of getSatelliteInfo;
\* getLngLatAt takes the time in ticks.
getLngLatAt(tle, optionalTimestamp, now, st) ==
    lngLatOf(getSatelliteInfoAt(tle, optionalTimestamp, Undefined, Undefined,
                                Undefined, now, st))

getLngLat(tle, optionalTimestamp, now, st) ==
    getLngLatAt(tle, InTicks(optionalTimestamp), now, st)

\* The reduce of getVisibleSatellites so far: the list built, the outcome of
\* every getSatelliteInfo call made, and the state.
VisibleSoFar(visibleSats, infos, st) ==
    [visibleSats |-> visibleSats, infos |-> infos, st |-> st]

\* visibleStep with `elevation > elevationThreshold`.
visibleStepAboveOnly(acc, tleArr, r, elevationThreshold) ==
    VisibleSoFar(IF r.out.kind = "throw" THEN acc.visibleSats
                 ELSE IF r.out.val.elevation > elevationThreshold
                 THEN Append(acc.visibleSats,
                             [tleArr |-> tleArr, info |-> r.out.val])
                 ELSE acc.visibleSats,
                 Append(acc.infos, r.out), r.st)

\* One step of the reduce, given the outcome r of its getSatelliteInfo call:
\* a throw is caught and the list is kept.
visibleStep(acc, tleArr, r, elevationThreshold) ==
    VisibleSoFar(IF r.out.kind = "throw" THEN acc.visibleSats
                 ELSE IF r.out.val.elevation >= elevationThreshold
                 THEN Append(acc.visibleSats,
                             [tleArr |-> tleArr, info |-> r.out.val])
                 ELSE acc.visibleSats,
                 Append(acc.infos, r.out), r.st)

RECURSIVE visibleReduce(_, _, _, _, _, _, _, _)
visibleReduce(tles, acc, timestampMS, observerLat, observerLng, observerHeight, elevationThreshold, now) ==
    IF tles = <<>> THEN acc
    ELSE visibleReduce(
             Tail(tles),
             visibleStep(acc, Head(tles),
                         getSatelliteInfo(Head(tles), timestampMS, observerLat,
                                          observerLng, observerHeight, now,
                                          acc.st),
                         elevationThreshold),
             timestampMS, observerLat, observerLng, observerHeight,
             elevationThreshold, now)

\* getVisibleSatellites({observerLat, observerLng, observerHeight, tles,
\* elevationThreshold, timestampMS}); the optional arguments are optional
\* numbers.
getVisibleSatellites(observerLat, observerLng, observerHeight, tles, elevationThreshold, timestampMS, now, st) ==
    visibleReduce(tles, VisibleSoFar(<<>>, <<>>, st),
                  IF timestampMS = Undefined THEN Num(now) ELSE timestampMS,
                  observerLat, observerLng,
                  IF observerHeight = Undefined THEN Num(0)
                  ELSE observerHeight,
                  IF elevationThreshold = Undefined THEN 0
                  ELSE elevationThreshold[1],
                  now)

\* `${tleArr[0]}-${startS}-${stepMS}-${isLngLatFormat}`
orbitTrackKey(tleArr, startTimeMS, stepMS, isLngLatFormat) ==
    (IF Len(tleArr) >= 1 THEN tleArr[1] ELSE UndefinedKey) \o <<"-">>
        \o ToFixedSeconds(startTimeMS) \o <<"-">> \o IntToString(stepMS)
        \o <<"-">> \o BoolToString(isLngLatFormat)

\* The local variables of a getOrbitTrack / getOrbitTrackSync call that has
\* parsed its TLE and missed the cache.
OrbitCall(tleArr, startTimeMS, stepMS, maxTimeMS, isLngLatFormat, sleepMS, jobChunkSize) ==
    [tleArr |-> tleArr, startTimeMS |-> startTimeMS, stepMS |-> stepMS,
     maxTimeMS |-> maxTimeMS, isLngLatFormat |-> isLngLatFormat,
     sleepMS |-> sleepMS, jobChunkSize |-> jobChunkSize,
     curTimeMS |-> startTimeMS, lastLng |-> Undefined, coords |-> <<>>,
     step |-> 0]

\* The locals after one more coordinate was pushed.
pushSample(c, curLng, curLat) ==
    [c EXCEPT !.coords = Append(c.coords,
                                IF c.isLngLatFormat THEN <<curLng, curLat>>
                                ELSE <<curLat, curLng>>),
              !.lastLng = Num(curLng),
              !.step = c.step + 1,
              !.curTimeMS = c.curTimeMS + c.stepMS]

\* A `while (!isDone)` loop in progress: its locals c, the state st, and
\* whether it goes on ("run"), has ended ("done"), threw, or (async orbit
\* track with sleepMS set) stands at `await sleep(sleepMS)`.
LoopRun(kind, c, st) ==
    [kind |-> kind, status |-> "run", out |-> Ret(0), st |-> st, c |-> c]

\* One pass of the sampling loop of an orbit track, given the outcome r of
\* its getLngLat call.
sampleStep(run, r) ==
    LET c == run.c
        isThrow == r.out.kind = "throw"
        doesCrossAntemeridian ==
            _crossesAntemeridian(c.lastLng, Num(r.out.val[1]))
        doesExceedTime ==
            c.maxTimeMS # 0 /\ c.curTimeMS - c.startTimeMS > c.maxTimeMS
        isDone == doesCrossAntemeridian \/ doesExceedTime
        doesSleep ==
            c.sleepMS # 0 /\ c.jobChunkSize # 0 /\ c.step % c.jobChunkSize = 0
    IN  IF isThrow
        THEN [run EXCEPT !.status = "throw", !.out = r.out, !.st = r.st]
        ELSE IF isDone
        THEN [run EXCEPT !.status = "done", !.out = Ret(c.coords),
                         !.st = r.st]
        ELSE [run EXCEPT !.status = IF doesSleep THEN "await" ELSE "run",
                         !.st = r.st,
                         !.c = pushSample(c, r.out.val[1], r.out.val[2])]

orbitIteration(run, now) ==
    sampleStep(run, getLngLat(ArrIn(run.c.tleArr), Num(run.c.curTimeMS), now,
                              run.st))

\* getLastAntemeridianCrossingTimeMS: the first step of the search, the step
\* below which it stops, and its maximum number of tries.
SearchStepMS == 180000
MinStepMS == 500
maxTries == 1000

\* The local variables of a crossing search, times in ticks.  crossings
\* counts the passes in which didCrossAntemeridian was true; lastTimeMS is
\* the time lastLngLat was sampled at, and seen the two samples of the last
\* pass in which didCrossAntemeridian was true:
\* <<lastLng, its time, curLng, its time>>.
SearchCall(tleArr, time) ==
    [tleArr |-> tleArr, step |-> Ticks(SearchStepMS), curTimeMS |-> Ticks(time),
     lastLng |-> Undefined, tries |-> 0, crossings |-> 0,
     lastTimeMS |-> Ticks(time), seen |-> <<>>]

\* searchStep with `tries > maxTries` for `tries >= maxTries`: one pass more.
searchStepTryingOnceMore(run, r) ==
    LET c == run.c
        didCrossAntemeridian ==
            _crossesAntemeridian(c.lastLng, Num(r.out.val[1]))
        step == IF didCrossAntemeridian THEN c.step \div 2 ELSE c.step
        isDone == step < Ticks(MinStepMS) \/ c.tries > maxTries
    IN  IF r.out.kind = "throw"
        THEN [run EXCEPT !.status = "throw", !.out = r.out, !.st = r.st]
        ELSE [run EXCEPT
                !.status = IF isDone THEN "done" ELSE "run",
                !.st = r.st,
                !.c = [c EXCEPT
                         !.curTimeMS = IF didCrossAntemeridian
                                       THEN c.curTimeMS + c.step
                                       ELSE c.curTimeMS - c.step,
                         !.step = step,
                         !.lastLng = IF didCrossAntemeridian THEN c.lastLng
                                     ELSE Num(r.out.val[1]),
                         !.tries = c.tries + 1,
                         !.crossings = IF didCrossAntemeridian
                                       THEN c.crossings + 1
                                       ELSE c.crossings,
                         !.lastTimeMS = IF didCrossAntemeridian
                                        THEN c.lastTimeMS
                                        ELSE c.curTimeMS,
                         !.seen = IF didCrossAntemeridian
                                  THEN <<c.lastLng[1], c.lastTimeMS,
                                         r.out.val[1], c.curTimeMS>>
                                  ELSE c.seen]]

\* searchStep that halves the step before it backs up: `curTimeMS += step`
\* after `step = step / 2`.
searchStepHalvingFirst(run, r) ==
    LET c == run.c
        didCrossAntemeridian ==
            _crossesAntemeridian(c.lastLng, Num(r.out.val[1]))
        step == IF didCrossAntemeridian THEN c.step \div 2 ELSE c.step
        isDone == step < Ticks(MinStepMS) \/ c.tries >= maxTries
    IN  IF r.out.kind = "throw"
        THEN [run EXCEPT !.status = "throw", !.out = r.out, !.st = r.st]
        ELSE [run EXCEPT
                !.status = IF isDone THEN "done" ELSE "run",
                !.st = r.st,
                !.c = [c EXCEPT
                         !.curTimeMS = IF didCrossAntemeridian
                                       THEN c.curTimeMS + step
                                       ELSE c.curTimeMS - c.step,
                         !.step = step,
                         !.lastLng = IF didCrossAntemeridian THEN c.lastLng
                                     ELSE Num(r.out.val[1]),
                         !.tries = c.tries + 1,
                         !.crossings = IF didCrossAntemeridian
                                       THEN c.crossings + 1
                                       ELSE c.crossings,
                         !.lastTimeMS = IF didCrossAntemeridian
                                        THEN c.lastTimeMS
                                        ELSE c.curTimeMS,
                         !.seen = IF didCrossAntemeridian
                                  THEN <<c.lastLng[1], c.lastTimeMS,
                                         r.out.val[1], c.curTimeMS>>
                                  ELSE c.seen]]

\* One pass of the search loop, given the outcome r of its getLngLat call.
searchStep(run, r) ==
    LET c == run.c
        didCrossAntemeridian ==
            _crossesAntemeridian(c.lastLng, Num(r.out.val[1]))
        step == IF didCrossAntemeridian THEN c.step \div 2 ELSE c.step
        isDone == step < Ticks(MinStepMS) \/ c.tries >= maxTries
    IN  IF r.out.kind = "throw"
        THEN [run EXCEPT !.status = "throw", !.out = r.out, !.st = r.st]
        ELSE [run EXCEPT
                !.status = IF isDone THEN "done" ELSE "run",
                !.st = r.st,
                !.c = [c EXCEPT
                         !.curTimeMS = IF didCrossAntemeridian
                                       THEN c.curTimeMS + c.step
                                       ELSE c.curTimeMS - c.step,
                         !.step = step,
                         !.lastLng = IF didCrossAntemeridian THEN c.lastLng
                                     ELSE Num(r.out.val[1]),
                         !.tries = c.tries + 1,
                         !.crossings = IF didCrossAntemeridian
                                       THEN c.crossings + 1
                                       ELSE c.crossings,
                         !.lastTimeMS = IF didCrossAntemeridian
                                        THEN c.lastTimeMS
                                        ELSE c.curTimeMS,
                         !.seen = IF didCrossAntemeridian
                                  THEN <<c.lastLng[1], c.lastTimeMS,
                                         r.out.val[1], c.curTimeMS>>
                                  ELSE c.seen]]

searchIteration(run, now) ==
    searchStep(run, getLngLatAt(ArrIn(run.c.tleArr), Num(run.c.curTimeMS), now,
                                run.st))

\* The loops are run pass by pass until they leave "run"; the passes are
\* grouped in blocks of LoopBlock so that evaluation does not nest one level
\* per pass.
LoopBlock == 64

whileIteration(run, now) ==
    IF run.kind = "orbit" THEN orbitIteration(run, now)
    ELSE searchIteration(run, now)

RECURSIVE iterate(_, _, _)
RECURSIVE thenIterate(_, _, _)
iterate(n, run, now) ==
    IF n = 1 THEN whileIteration(run, now)
    ELSE thenIterate(n - n \div 2, iterate(n \div 2, run, now), now)

thenIterate(n, run, now) ==
    IF run.status # "run" THEN run ELSE iterate(n, run, now)

\* The sampling loop of an orbit track has no bound of its own: a call that
\* has pushed MaxSamples coordinates and still goes on is taken not to
\* return ("running").
MaxSamples == 384

StillRunning == [kind |-> "running", val |-> 0, msg |-> ""]

RECURSIVE whileNotDone(_, _)
whileNotDone(run, now) ==
    IF run.status # "run" THEN run
    ELSE IF run.kind = "orbit" /\ run.c.step >= MaxSamples
    THEN [run EXCEPT !.status = "running", !.out = StillRunning]
    ELSE whileNotDone(iterate(LoopBlock, run, now), now)

\* The sampling loop of an orbit track, from the locals c on, until it ends,
\* throws or reaches an await.
orbitTrackLoop(c, now, st) == whileNotDone(LoopRun("orbit", c, st), now)

\* What a call that ran the loop to outcome run leaves: the track is cached
\* when the loop is done.
orbitTrackEnd(run, cacheKey, tracks) ==
    [status |-> run.status, out |-> run.out, st |-> run.st,
     tracks |-> IF run.status = "done"
                THEN cachePut(tracks, cacheKey, run.out.val)
                ELSE tracks,
     hit |-> FALSE, key |-> cacheKey, c |-> run.c]

\* getOrbitTrack / getOrbitTrackSync after the parseTLE call gave p, up to the
\* first await (the sync variant has none: sleepMS = 0).
orbitTrackOfParsed(p, cacheKey, call, now, info, tracks) ==
    IF p.out.kind = "throw"
    THEN [status |-> "throw", out |-> p.out,
          st |-> SgpState(p.cache, p.heap, info), tracks |-> tracks,
          hit |-> FALSE, key |-> <<>>, c |-> <<>>]
    ELSE IF cacheKey \in DOMAIN tracks
    THEN [status |-> "done", out |-> Ret(tracks[cacheKey]),
          st |-> SgpState(p.cache, p.heap, info), tracks |-> tracks,
          hit |-> TRUE, key |-> cacheKey, c |-> <<>>]
    ELSE orbitTrackEnd(orbitTrackLoop(call, now,
                                      SgpState(p.cache, p.heap, info)),
                       cacheKey, tracks)

\* tleArr of the record the parse outcome p returned.
tleArrOf(p) == IF p.out.kind = "throw" THEN <<>> ELSE p.heap[p.out.val].tle

orbitTrackStart(p, startTimeMS, stepMS, maxTimeMS, isLngLatFormat, sleepMS, jobChunkSize, now, info, tracks) ==
    orbitTrackOfParsed(p,
                       orbitTrackKey(tleArrOf(p), startTimeMS, stepMS,
                                     isLngLatFormat),
                       OrbitCall(tleArrOf(p), startTimeMS, stepMS, maxTimeMS,
                                 isLngLatFormat, sleepMS, jobChunkSize),
                       now, info, tracks)

getOrbitTrackSync(tle, startTimeMS, stepMS, maxTimeMS, isLngLatFormat, now, st, tracks) ==
    orbitTrackStart(parseTLE(tle, TRUE, st.cache, st.heap), startTimeMS, stepMS,
                    maxTimeMS, isLngLatFormat, 0, 0, now, st.info, tracks)

getOrbitTrack(tle, startTimeMS, stepMS, sleepMS, jobChunkSize, maxTimeMS, isLngLatFormat, now, st, tracks) ==
    orbitTrackStart(parseTLE(tle, TRUE, st.cache, st.heap), startTimeMS, stepMS,
                    maxTimeMS, isLngLatFormat, sleepMS, jobChunkSize, now,
                    st.info, tracks)

\* getOrbitTrack from the await it is suspended at to the next one or its end.
orbitTrackResume(t, now, st, tracks) ==
    orbitTrackEnd(orbitTrackLoop(t.c, now, st), t.key, tracks)

_MS_IN_A_DAY == 86400000
_MS_IN_A_MINUTE == 60000

\* parseInt(_MS_IN_A_DAY / meanMotion) for the mean motion a line 2 states:
\* the time of one revolution of the propagator's orbit, a day when the
\* satellite does not drift.  (Every such time is a multiple of 5 ms.)
orbitTimeOfLine(line2) ==
    IF DriftOfLine(line2) = 0 THEN _MS_IN_A_DAY
    ELSE (360 * DriftSpanOfLine(line2)) \div DriftOfLine(line2)

\* getFromLine2(tle, meanMotion) after its parseTLE call gave p.
orbitTimeOfParsed(p, info) ==
    [out |-> IF p.out.kind = "throw" THEN p.out
             ELSE IF Len(tleArrOf(p)) < 2 THEN Throw(TYPE_ERROR)
             ELSE Ret(orbitTimeOfLine(tleArrOf(p)[2])),
     st |-> SgpState(p.cache, p.heap, info)]

getAverageOrbitTimeMS(tle, st) ==
    orbitTimeOfParsed(parseTLE(tle, TRUE, st.cache, st.heap), st.info)

\* An entry of cachedAntemeridianCrossings: the number -1, or the list of
\* the crossing times found.
NoCrossing == [sentinel |-> TRUE, times |-> <<>>]
CrossingTimes(times) == [sentinel |-> FALSE, times |-> times]

\* str.substr(start, length)
SubstrOf(str, start, length) ==
    SubSeq(str, start + 1,
           IF start + length < Len(str) THEN start + length ELSE Len(str))

\* The cache is looked up under tle[0].substr(0, 30).
CrossingKeyLength == 30

\* cachedCrossingTimes.filter(...)[0] || false, as an optional number.
RECURSIVE firstWithinOrbit(_, _, _)
firstWithinOrbit(times, timeMS, orbitLengthMS) ==
    IF times = <<>> \/ timeMS = Undefined THEN Undefined
    ELSE IF timeMS[1] - times[1] > 0 /\ timeMS[1] - times[1] < orbitLengthMS
    THEN (IF times[1] = 0 THEN Undefined ELSE Num(times[1]))
    ELSE firstWithinOrbit(Tail(times), timeMS, orbitLengthMS)

\* getCachedLastAntemeridianCrossingTimeMS after orbitLengthMS was computed:
\* false (undefined here), -1 or a cached time.
cachedCrossingOf(tle, orbitLengthMS, timeMS, crossings) ==
    LET tleStr == SubstrOf(tle[1], 0, CrossingKeyLength)
    IN  IF tleStr \notin DOMAIN crossings THEN Undefined
        ELSE IF crossings[tleStr].sentinel THEN Num(-1)
        ELSE firstWithinOrbit(crossings[tleStr].times, timeMS, orbitLengthMS)

\* The outcome of a crossing search: tries and crossed tell how many passes
\* the loop made and in how many of them a crossing was seen.
SearchResult(out, st, crossings, hit, c) ==
    [out |-> out, st |-> st, crossings |-> crossings, hit |-> hit,
     tries |-> c.tries, crossed |-> c.crossings, seen |-> c.seen,
     curTimeMS |-> c.curTimeMS]

\* getLastAntemeridianCrossingTimeMS after its loop ended as run (or was
\* not entered: the parse threw, or the cache held a value).
crossingSearchEnd(run, crossings) ==
    LET couldNotFindCrossing == run.c.tries - 1 = maxTries
        crossingTime == IF couldNotFindCrossing THEN -1
                        ELSE DateOf(run.c.curTimeMS)
        tleStr == run.c.tleArr[1]
        entry == IF tleStr \in DOMAIN crossings THEN crossings[tleStr]
                 ELSE CrossingTimes(<<>>)
    IN  IF run.status = "throw" \/ run.status = "hit"
        THEN SearchResult(run.out, run.st, crossings, run.status = "hit",
                          run.c)
        ELSE IF couldNotFindCrossing
        THEN SearchResult(Ret(-1), run.st,
                          cachePut(crossings, tleStr, NoCrossing), FALSE,
                          run.c)
        ELSE IF entry.sentinel
        THEN SearchResult(Throw(TYPE_ERROR), run.st, crossings, FALSE,
                          run.c)
        ELSE SearchResult(Ret(crossingTime), run.st,
                          cachePut(crossings, tleStr,
                                   CrossingTimes(Append(entry.times,
                                                        crossingTime))),
                          FALSE, run.c)

\* A search that does not enter its loop: it threw, or returns cachedVal.
SearchOver(status, out, tleArr, st) ==
    [LoopRun("search", SearchCall(tleArr, 0), st) EXCEPT !.status = status,
                                                         !.out = out]

\* The search as it stands before the first pass of its loop, after the
\* orbit length computation of the cache lookup gave o.
searchRunOfOrbitTime(tleArr, o, timeMS, now, crossings) ==
    IF o.out.kind = "throw" THEN SearchOver("throw", o.out, tleArr, o.st)
    ELSE IF ~Falsy(cachedCrossingOf(tleArr, o.out.val, timeMS, crossings))
    THEN SearchOver("hit",
                    Ret(cachedCrossingOf(tleArr, o.out.val, timeMS,
                                         crossings)[1]),
                    tleArr, o.st)
    ELSE LoopRun("search",
                 SearchCall(tleArr, IF Falsy(timeMS) THEN now ELSE timeMS[1]),
                 o.st)

\* ... after its parseTLE call gave p.
searchRunOfParsed(p, timeMS, now, info, crossings) ==
    IF p.out.kind = "throw"
    THEN SearchOver("throw", p.out, <<>>, SgpState(p.cache, p.heap, info))
    ELSE IF Len(tleArrOf(p)) < 1
    THEN SearchOver("throw", Throw(TYPE_ERROR), <<>>,
                    SgpState(p.cache, p.heap, info))
    ELSE searchRunOfOrbitTime(
             tleArrOf(p),
             getAverageOrbitTimeMS(ArrIn(tleArrOf(p)),
                                   SgpState(p.cache, p.heap, info)),
             timeMS, now, crossings)

searchRun(tle, timeMS, now, st, crossings) ==
    searchRunOfParsed(parseTLE(tle, TRUE, st.cache, st.heap), timeMS, now,
                      st.info, crossings)

\* getLastAntemeridianCrossingTimeMS(tle, timeMS), timeMS an optional number.
getLastAntemeridianCrossingTimeMS(tle, timeMS, now, st, crossings) ==
    crossingSearchEnd(whileNotDone(searchRun(tle, timeMS, now, st, crossings),
                                   now),
                      crossings)

\* The defaults of getOrbitTrack / getOrbitTrackSync.
DefaultJobChunkSize == 1000
DefaultMaxTimeMS == 6000000

\* The outcome of a ground-track call; found tells whether the first
\* crossing search gave a time.
TracksResult(out, st, crossings, tracks, found) ==
    [out |-> out, st |-> st, crossings |-> crossings, tracks |-> tracks,
     found |-> found]

\* The orbit track of the degraded mode, r, as the call hands it on:
\* getGroundTracks resolves to Promise.all([track]), getGroundTracksSync
\* returns partialGroundTrack itself.
partialGroundTrack(r, sync, crossings) ==
    TracksResult(IF r.out.kind = "throw" THEN r.out
                 ELSE IF sync THEN r.out
                 ELSE Ret(<<r.out.val>>),
                 r.st, crossings, r.tracks, FALSE)

groundTracksDegraded(ref, startTimeMS, isLngLatFormat, sync, now, s1, tracks) ==
    partialGroundTrack(
        IF sync
        THEN getOrbitTrackSync(ObjIn(ref), startTimeMS, _MS_IN_A_MINUTE,
                               _MS_IN_A_DAY \div 4, TRUE, now, s1.st, tracks)
        ELSE getOrbitTrack(ObjIn(ref), startTimeMS, _MS_IN_A_MINUTE, 0,
                           DefaultJobChunkSize, _MS_IN_A_DAY \div 4,
                           isLngLatFormat, now, s1.st, tracks),
        sync, s1.crossings)

\* The orbit tracks made so far: their outcomes, and whether one threw.
TracksSoFar(outs, st, tracks, failed) ==
    [outs |-> outs, st |-> st, tracks |-> tracks, failed |-> failed]

tracksAppend(acc, r) ==
    TracksSoFar(Append(acc.outs, r.out), r.st, r.tracks,
                acc.failed \/ r.out.kind = "throw")

\* One more orbit track from orbitStartMS.  The three getOrbitTrack calls
\* of getGroundTracks are all made (none reaches an await, sleepMS being
\* 0); orbitStartTimes.map of getGroundTracksSync stops at the first throw.
trackFrom(acc, ref, orbitStartMS, stepMS, isLngLatFormat, sync, now) ==
    IF sync /\ acc.failed THEN acc
    ELSE tracksAppend(
             acc,
             IF sync
             THEN getOrbitTrackSync(ObjIn(ref), orbitStartMS, stepMS,
                                    DefaultMaxTimeMS, isLngLatFormat, now,
                                    acc.st, acc.tracks)
             ELSE getOrbitTrack(ObjIn(ref), orbitStartMS, stepMS, 0,
                                DefaultJobChunkSize, DefaultMaxTimeMS,
                                isLngLatFormat, now, acc.st, acc.tracks))

RECURSIVE firstThrow(_)
firstThrow(outs) ==
    IF outs[1].kind = "throw" THEN outs[1] ELSE firstThrow(Tail(outs))

threeTracks(acc, crossings) ==
    TracksResult(IF acc.failed THEN firstThrow(acc.outs)
                 ELSE Ret([i \in 1..Len(acc.outs) |-> acc.outs[i].val]),
                 acc.st, crossings, acc.tracks, TRUE)

\* ... after the search for the next orbit's start gave s3.
groundTracksOfNext(ref, lastOrbitStartMS, curOrbitStartMS, s3, stepMS, isLngLatFormat, sync, now, tracks) ==
    IF s3.out.kind = "throw"
    THEN TracksResult(s3.out, s3.st, s3.crossings, tracks, TRUE)
    ELSE threeTracks(
             trackFrom(
                 trackFrom(
                     trackFrom(TracksSoFar(<<>>, s3.st, tracks, FALSE), ref,
                               lastOrbitStartMS, stepMS, isLngLatFormat, sync,
                               now),
                     ref, curOrbitStartMS, stepMS, isLngLatFormat, sync, now),
                 ref, s3.out.val, stepMS, isLngLatFormat, sync, now),
             s3.crossings)

\* ... after the search for the previous orbit's start gave s2.
groundTracksOfLast(ref, orbitTimeMS, curOrbitStartMS, s2, stepMS, isLngLatFormat, sync, now, tracks) ==
    IF s2.out.kind = "throw"
    THEN TracksResult(s2.out, s2.st, s2.crossings, tracks, TRUE)
    ELSE groundTracksOfNext(
             ref, s2.out.val, curOrbitStartMS,
             getLastAntemeridianCrossingTimeMS(
                 ObjIn(ref),
                 Num(curOrbitStartMS + orbitTimeMS + orbitTimeMS \div 5), now,
                 s2.st, s2.crossings),
             stepMS, isLngLatFormat, sync, now, tracks)

\* ... after the search for the current orbit's start gave s1.
groundTracksOfSearch(ref, orbitTimeMS, s1, startTimeMS, stepMS, isLngLatFormat, sync, now, tracks) ==
    IF s1.out.kind = "throw"
    THEN TracksResult(s1.out, s1.st, s1.crossings, tracks, FALSE)
    ELSE IF s1.out.val = -1
    THEN groundTracksDegraded(ref, startTimeMS, isLngLatFormat, sync, now, s1,
                              tracks)
    ELSE groundTracksOfLast(
             ref, orbitTimeMS, s1.out.val,
             getLastAntemeridianCrossingTimeMS(
                 ObjIn(ref), Num(s1.out.val - orbitTimeMS \div 5), now, s1.st,
                 s1.crossings),
             stepMS, isLngLatFormat, sync, now, tracks)

\* ... after getAverageOrbitTimeMS gave o.
groundTracksOfOrbitTime(ref, o, startTimeMS, stepMS, isLngLatFormat, sync, now, crossings, tracks) ==
    IF o.out.kind = "throw"
    THEN TracksResult(o.out, o.st, crossings, tracks, FALSE)
    ELSE groundTracksOfSearch(
             ref, o.out.val,
             getLastAntemeridianCrossingTimeMS(ObjIn(ref), Num(startTimeMS),
                                               now, o.st, crossings),
             startTimeMS, stepMS, isLngLatFormat, sync, now, tracks)

\* getGroundTracks (sync = FALSE) and getGroundTracksSync (sync = TRUE)
\* after the parseTLE call gave p.  The first passes parsedTLE to
\* getAverageOrbitTimeMS, the second tleArr.
groundTracksOfParsed(p, startTimeMS, stepMS, isLngLatFormat, sync, now, info, crossings, tracks) ==
    IF p.out.kind = "throw"
    THEN TracksResult(p.out, SgpState(p.cache, p.heap, info), crossings,
                      tracks, FALSE)
    ELSE groundTracksOfOrbitTime(
             p.out.val,
             getAverageOrbitTimeMS(IF sync THEN ArrIn(tleArrOf(p))
                                   ELSE ObjIn(p.out.val),
                                   SgpState(p.cache, p.heap, info)),
             startTimeMS, stepMS, isLngLatFormat, sync, now, crossings, tracks)

\* getGroundTracks({tle, startTimeMS, stepMS, isLngLatFormat}): the value its
\* promise resolves to, or what it throws or rejects with.
getGroundTracks(tle, startTimeMS, stepMS, isLngLatFormat, now, st, crossings, tracks) ==
    groundTracksOfParsed(parseTLE(tle, TRUE, st.cache, st.heap),
                         IF startTimeMS = Undefined THEN now
                         ELSE startTimeMS[1],
                         stepMS, isLngLatFormat, FALSE, now, st.info,
                         crossings, tracks)

\* getGroundTracksSync({tle, stepMS, optionalTimeMS, isLngLatFormat})
getGroundTracksSync(tle, stepMS, optionalTimeMS, isLngLatFormat, now, st, crossings, tracks) ==
    groundTracksOfParsed(parseTLE(tle, TRUE, st.cache, st.heap),
                         IF optionalTimeMS = Undefined THEN now
                         ELSE optionalTimeMS[1],
                         stepMS, isLngLatFormat, TRUE, now, st.info, crossings,
                         tracks)

(***************************************************************************)
(* Inputs of the parsing specification.                                    *)
(***************************************************************************)
TLEArrays ==
    { <<L1, L2>>, <<L1, L2b>>, <<L1, L2x>>, <<L1x, L2>>,
      <<Name0A, L1, L2>>, <<Name00A, L1pad, L2pad>>,
      <<<<"1">>, <<"2">>>>, <<L1>>, <<L1, L2, L1, L2>> }

TLEStrings ==
    { Join(a) : a \in { <<L1, L2>>, <<L1, L2x>>, <<L1x, L2>>,
                        <<NamePad, L1pad, L2pad>>, <<Name00A, L1, L2>>,
                        <<<<"2">>>>, <<L1, L2, L1, L2>> } }

Numbers == {2}

\* Objects the caller built itself: a canonical record, a record whose tle
\* list has three elements, and an object without a tle property.
CallerObjects ==
    << Obj(TRUE, <<L1, L2>>, TRUE, NameA, FALSE),
       Obj(TRUE, <<NameA, L1, L2>>, TRUE, NameA, FALSE),
       Obj(FALSE, <<>>, FALSE, <<>>, FALSE) >>

ParseInputs(hp) ==
    {ArrIn(a) : a \in TLEArrays} \cup {StrIn(s) : s \in TLEStrings}
        \cup {NumIn(n) : n \in Numbers} \cup {ObjIn(r) : r \in 1..Len(hp)}

EmptyCache == [k \in {} |-> 0]

NoTask == [pending |-> FALSE]

NoCall == [op |-> "none", arg |-> <<>>, out |-> Ret(0)]

Init ==
    /\ tleCache = EmptyCache
    /\ heap = CallerObjects
    /\ cachedSatelliteInfo = EmptyCache
    /\ cachedAntemeridianCrossings = EmptyCache
    /\ cachedOrbitTracks = EmptyCache
    /\ cachedGroundTrack = EmptyCache
    /\ caches = ModuleCaches
    /\ task = NoTask
    /\ last = NoCall
    /\ prev = NoCall
    /\ nCalls = 0

(***************************************************************************)
(* Calls of the parsing API.                                               *)
(***************************************************************************)
Record(op, arg, out) ==
    /\ last' = [op |-> op, arg |-> arg, out |-> out]
    /\ prev' = last
    /\ nCalls' = nCalls + 1

\* The effect of a parsing call with outcome p.
ParseEffect(op, arg, p) ==
    /\ tleCache' = p.cache
    /\ heap' = p.heap
    /\ Record(op, arg, p.out)
    /\ UNCHANGED sgpVars

ParseTLE(sourceTLE, fastParse) ==
    /\ nCalls < MaxCalls
    /\ ParseEffect("parseTLE", [tle |-> sourceTLE, fastParse |-> fastParse],
                   parseTLE(sourceTLE, fastParse, tleCache, heap))

IsValidTLE(rawTLE) ==
    /\ nCalls < MaxCalls
    /\ ParseEffect("isValidTLE", [tle |-> rawTLE],
                   isValidTLE(rawTLE, tleCache, heap))

ClearTLEParseCache ==
    /\ nCalls < MaxCalls
    /\ tleCache' = EmptyCache
    /\ Record("clearTLEParseCache", <<>>, Ret(0))
    /\ UNCHANGED <<heap, sgpVars>>

Next ==
    \/ \E x \in ParseInputs(heap) : ParseTLE(x, TRUE)
    \/ \E x \in ParseInputs(heap) : ParseTLE(x, FALSE)
    \/ \E x \in ParseInputs(heap) : IsValidTLE(x)
    \/ ClearTLEParseCache

Spec == Init /\ [][Next]_vars

(***************************************************************************)
(* Inputs and calls of the sgp4 specification.                             *)
(***************************************************************************)
SgpTLEs == { ArrIn(<<L1, L2>>), ArrIn(<<L1, L2b>>), ArrIn(<<L1, L2dec>>) }
OrbitTLEs == { ArrIn(<<L1, L2>>), ArrIn(<<L1, L2b>>) }

\* <<timestamp, observerLat>> of the getSatelliteInfo calls.
InfoInputs ==
    { <<Num(1000), Undefined>>, <<Num(1000), Num(0)>>, <<Num(0), Undefined>> }

\* <<startTimeMS, stepMS, maxTimeMS, isLngLatFormat>> of the orbit-track calls.
OrbitInputs ==
    { <<600, 500, 1500, TRUE>>, <<600, 500, 500, TRUE>>,
      <<1000, 500, 1500, FALSE>> }

\* <<sleepMS, jobChunkSize>> of the getOrbitTrack calls.
AsyncInputs == { <<0, 1000>>, <<10, 2>>, <<0, 2>> }

\* The values Date.now() returns.
Clock == {1500, 2000}

Sgp == SgpState(tleCache, heap, cachedSatelliteInfo)

\* A call that does not return keeps the thread: nothing runs after it.
Hung == last.out.kind = "running"

CanCall == nCalls < MaxSgpCalls /\ ~Hung

SgpRecord(op, arg, out, hit) ==
    /\ last' = [op |-> op, arg |-> arg, out |-> out, hit |-> hit]
    /\ prev' = last
    /\ nCalls' = nCalls + 1

\* The effect of a getSatelliteInfo call with outcome r.
InfoEffect(arg, r) ==
    /\ tleCache' = r.st.cache
    /\ heap' = r.st.heap
    /\ cachedSatelliteInfo' = r.st.info
    /\ SgpRecord("getSatelliteInfo", arg, r.out, r.hit)
    /\ UNCHANGED <<cachedAntemeridianCrossings, cachedOrbitTracks,
                   cachedGroundTrack, caches, task>>

GetSatelliteInfo(rawTLE, rawTimestamp, observerLat, now) ==
    /\ CanCall
    /\ InfoEffect([tle |-> rawTLE, timestamp |-> rawTimestamp,
                   observerLat |-> observerLat, now |-> now],
                  getSatelliteInfo(rawTLE, rawTimestamp, observerLat, Undefined,
                                   Undefined, now, Sgp))

OrbitArg(tle, startTimeMS, stepMS, maxTimeMS, isLngLatFormat) ==
    [tle |-> tle, startTimeMS |-> startTimeMS, stepMS |-> stepMS,
     maxTimeMS |-> maxTimeMS, isLngLatFormat |-> isLngLatFormat]

\* The effect of an orbit-track call (or of one of its segments) r.  The
\* record of a finished call keeps, as sync, what getOrbitTrackSync returns
\* for the same arguments in the state the call was made in.
OrbitEffect(op, arg, r, sync) ==
    /\ tleCache' = r.st.cache
    /\ heap' = r.st.heap
    /\ cachedSatelliteInfo' = r.st.info
    /\ cachedOrbitTracks' = r.tracks
    /\ task' = IF r.status = "await"
               THEN [pending |-> TRUE, arg |-> arg, key |-> r.key, c |-> r.c,
                     sync |-> sync]
               ELSE NoTask
    /\ IF r.status = "await"
       THEN /\ nCalls' = nCalls + 1
            /\ UNCHANGED <<last, prev>>
       ELSE /\ last' = [op |-> op, arg |-> arg, out |-> r.out, hit |-> r.hit,
                        sync |-> sync]
            /\ prev' = last
            /\ nCalls' = nCalls + 1
    /\ UNCHANGED <<cachedAntemeridianCrossings, cachedGroundTrack, caches>>

SyncOrbitEffect(arg, r) == OrbitEffect("getOrbitTrackSync", arg, r, r.out)

GetOrbitTrackSync(tle, startTimeMS, stepMS, maxTimeMS, isLngLatFormat, now) ==
    /\ CanCall
    /\ SyncOrbitEffect(OrbitArg(tle, startTimeMS, stepMS, maxTimeMS,
                                isLngLatFormat),
                       getOrbitTrackSync(tle, startTimeMS, stepMS, maxTimeMS,
                                         isLngLatFormat, now, Sgp,
                                         cachedOrbitTracks))

\* The arguments of a getOrbitTrack call: those of getOrbitTrackSync, and
\* sleepMS and jobChunkSize.
AsyncOrbitArg(tle, startTimeMS, stepMS, sleepMS, jobChunkSize, maxTimeMS, isLngLatFormat) ==
    [tle |-> tle, startTimeMS |-> startTimeMS, stepMS |-> stepMS,
     maxTimeMS |-> maxTimeMS, isLngLatFormat |-> isLngLatFormat,
     sleepMS |-> sleepMS, jobChunkSize |-> jobChunkSize]

\* One getOrbitTrack call is in flight at a time.
GetOrbitTrack(tle, startTimeMS, stepMS, sleepMS, jobChunkSize, maxTimeMS, isLngLatFormat, now) ==
    /\ CanCall
    /\ ~task.pending
    /\ OrbitEffect("getOrbitTrack",
                   AsyncOrbitArg(tle, startTimeMS, stepMS, sleepMS,
                                 jobChunkSize, maxTimeMS, isLngLatFormat),
                   getOrbitTrack(tle, startTimeMS, stepMS, sleepMS,
                                 jobChunkSize, maxTimeMS, isLngLatFormat, now,
                                 Sgp, cachedOrbitTracks),
                   getOrbitTrackSync(tle, startTimeMS, stepMS, maxTimeMS,
                                     isLngLatFormat, now, Sgp,
                                     cachedOrbitTracks).out)

\* The timer of `await sleep(sleepMS)` fires: the suspended call goes on.
ResumeOrbitTrack(now) ==
    /\ task.pending
    /\ ~Hung
    /\ OrbitEffect("getOrbitTrack", task.arg,
                   orbitTrackResume(task, now, Sgp, cachedOrbitTracks),
                   task.sync)

ClearCache ==
    /\ CanCall
    /\ caches' = clearCache(caches)
    /\ SgpRecord("clearCache", <<>>, Ret(0), FALSE)
    /\ UNCHANGED <<parseVars, cachedSatelliteInfo, cachedAntemeridianCrossings,
                   cachedOrbitTracks, cachedGroundTrack, task>>

GetCacheSizes ==
    /\ CanCall
    /\ SgpRecord("getCacheSizes", <<>>,
                 Ret(getCacheSizes(caches, cachedSatelliteInfo,
                                   cachedAntemeridianCrossings,
                                   cachedOrbitTracks, cachedGroundTrack)),
                 FALSE)
    /\ UNCHANGED <<parseVars, sgpVars>>

SgpClearTLEParseCache ==
    /\ CanCall
    /\ tleCache' = EmptyCache
    /\ SgpRecord("clearTLEParseCache", <<>>, Ret(0), FALSE)
    /\ UNCHANGED <<heap, sgpVars>>

SgpNext ==
    \/ \E x \in SgpTLEs, i \in InfoInputs, now \in Clock :
          GetSatelliteInfo(x, i[1], i[2], now)
    \/ \E x \in OrbitTLEs, o \in OrbitInputs, now \in Clock :
          GetOrbitTrackSync(x, o[1], o[2], o[3], o[4], now)
    \/ \E x \in OrbitTLEs, o \in OrbitInputs, a \in AsyncInputs, now \in Clock :
          GetOrbitTrack(x, o[1], o[2], a[1], a[2], o[3], o[4], now)
    \/ \E now \in Clock : ResumeOrbitTrack(now)
    \/ ClearCache
    \/ GetCacheSizes
    \/ SgpClearTLEParseCache

SpecSgp == Init /\ [][SgpNext]_vars

(***************************************************************************)
(* Claims about the parser and the validator.                              *)
(***************************************************************************)
\* The lines of a string or array input, as the caller wrote them.
LinesOf(x) == IF x.type = "string" THEN Split(x.str) ELSE x.arr

IsText(x) == x.type \in {"string", "array"}

\* The last call was parseTLE(x) with the default fastParse = true.
ParsedByDefault == last.op = "parseTLE" /\ last.arg.fastParse

\* The data lines (line 1, line 2) of a 2- or 3-line input.
DataLines(x) ==
    LET ls == LinesOf(x) IN IF Len(ls) = 3 THEN Tail(ls) ELSE ls

\* C4: parseTLE applied to a 2- or 3-element array returns a record whose
\* tle lines are the trimmed data lines of that very array, and whose name is
\* unset when the array has 2 elements, whatever was parsed before.
C4_ArrayParseIgnoresHistory ==
    (/\ ParsedByDefault
     /\ last.arg.tle.type = "array"
     /\ Len(last.arg.tle.arr) \in {2, 3})
    => /\ last.out.kind = "return"
       /\ heap[last.out.val].tle = MapTrim(DataLines(last.arg.tle))
       /\ (Len(last.arg.tle.arr) = 2 => ~heap[last.out.val].hasName)

\* x is y with the final digit of line 1 or of line 2 replaced by another digit.
ChecksumDigitChanged(x, y) ==
    LET lx == LinesOf(x)
        ly == LinesOf(y)
        n == Len(lx)
    IN  /\ IsText(x) /\ x.type = y.type
        /\ Len(ly) = n /\ n \in {2, 3}
        /\ \E i \in {n - 1, n} :
              /\ \A j \in 1..n : j # i => lx[j] = ly[j]
              /\ Len(lx[i]) = Len(ly[i]) /\ Len(lx[i]) >= 1
              /\ SubSeq(lx[i], 1, Len(lx[i]) - 1)
                    = SubSeq(ly[i], 1, Len(ly[i]) - 1)
              /\ lx[i][Len(lx[i])] \in Digits
              /\ ly[i][Len(ly[i])] \in Digits
              /\ lx[i][Len(lx[i])] # ly[i][Len(ly[i])]

\* isValidTLE accepts y (in a program that has parsed nothing yet).
Accepted(y) == isValidTLE(y, EmptyCache, CallerObjects).out = Ret(TRUE)

\* C5: a TLE obtained from an accepted TLE by changing the checksum digit of
\* line 1 or line 2 is rejected by isValidTLE, whatever was parsed before.
C5_ChangedChecksumRejected ==
    (/\ last.op = "isValidTLE"
     /\ \E y \in ParseInputs(CallerObjects) :
           Accepted(y) /\ ChecksumDigitChanged(last.arg.tle, y))
    => last.out = Ret(FALSE)

\* computeChecksum(line) equals the line's last character read as a digit.
ChecksumMatches(line) ==
    /\ Len(line) >= 1
    /\ computeChecksum(line).kind = "return"
    /\ computeChecksum(line).val = ParseIntChar(line[Len(line)])

StartsWithDigit(line, d) == Len(line) >= 1 /\ ParseIntChar(line[1]) = d

\* The record parseTLE yields for x in the current state (absent if it throws).
ParsedRecord(x) == parseTLE(x, TRUE, tleCache, heap)

\* C6: isValidTLE returns true exactly when the parsed record has two lines,
\* line 1 starts with 1, line 2 starts with 2 and both checksums match; it
\* returns false in every other case.
C6_ValidIffTwoCheckedLines ==
    last.op = "isValidTLE"
    => LET p == ParsedRecord(last.arg.tle)
           tle == p.heap[p.out.val].tle
       IN  last.out = Ret(/\ p.out.kind = "return"
                          /\ Len(tle) = 2
                          /\ StartsWithDigit(tle[1], 1)
                          /\ StartsWithDigit(tle[2], 2)
                          /\ ChecksumMatches(tle[1])
                          /\ ChecksumMatches(tle[2]))

\* The input does not parse to exactly two lines: text of a line count other
\* than 2 or 3, or an object whose tle list does not have two elements.
NotTwoLines(x, hp) ==
    \/ IsText(x) /\ Len(LinesOf(x)) \notin {2, 3}
    \/ x.type = "object" /\ ~isTLEObj(x, hp)

\* C7: isValidTLE returns false, and does not throw, for every input whose
\* parsed form does not consist of exactly two lines.
C7_NotTwoLinesIsInvalid ==
    (last.op = "isValidTLE" /\ NotTwoLines(last.arg.tle, heap))
    => last.out = Ret(FALSE)

\* C8: parseTLE throws for every input that is not a string, an array or a
\* canonical record and for text of a line count other than 2 or 3; it never
\* returns a record whose tle list has a length other than 2.
C8_ParseRejectsMalformed ==
    ParsedByDefault
    => /\ (\/ ~IsText(last.arg.tle) /\ ~isTLEObj(last.arg.tle, heap)
           \/ NotTwoLines(last.arg.tle, heap))
          => last.out.kind = "throw"
       /\ last.out.kind = "return" => Len(heap[last.out.val].tle) = 2

\* C9: parseTLE applied to what parseTLE returned yields the very same
\* reference, and a canonical object is returned as it is.
C9_ParseIdempotent ==
    /\ (/\ ParsedByDefault
        /\ prev.op = "parseTLE" /\ prev.arg.fastParse
        /\ prev.out.kind = "return"
        /\ last.arg.tle = ObjIn(prev.out.val))
       => last.out = Ret(prev.out.val)
    /\ (ParsedByDefault /\ isTLEObj(last.arg.tle, heap))
       => last.out = Ret(last.arg.tle.ref)

\* The name the claim describes: "0 " prefix removed, outer whitespace removed.
NameOf(first) ==
    Trim(IF StartsWith(first, <<"0", " ">>) THEN Substr(first, 2) ELSE first)

\* C10: for text of three lines parseTLE returns a record whose name is the
\* first element without a leading "0 " and without outer whitespace, and
\* whose tle list is the trimmed second and third elements.
C10_ThreeLineParse ==
    (/\ ParsedByDefault /\ IsText(last.arg.tle)
     /\ Len(LinesOf(last.arg.tle)) = 3)
    => /\ last.out.kind = "return"
       /\ heap[last.out.val].hasName
       /\ heap[last.out.val].name = NameOf(LinesOf(last.arg.tle)[1])
       /\ heap[last.out.val].tle
             = <<Trim(LinesOf(last.arg.tle)[2]), Trim(LinesOf(last.arg.tle)[3])>>

(***************************************************************************)
(* Claims about the caches of sgp4.js.                                     *)
(***************************************************************************)
OrbitOps == {"getOrbitTrack", "getOrbitTrackSync"}

\* A program that has not been called yet.
FreshSgp == SgpState(EmptyCache, CallerObjects, EmptyCache)

\* C1: after clearCache() returns none of the four caches holds an entry,
\* getCacheSizes() returns [0,0,0,0], and the next getSatelliteInfo or
\* orbit-track call misses the cache and recomputes.
C1_ClearCacheEmpties ==
    /\ last.op = "clearCache"
       => /\ cachedSatelliteInfo = EmptyCache
          /\ cachedAntemeridianCrossings = EmptyCache
          /\ cachedOrbitTracks = EmptyCache
          /\ cachedGroundTrack = EmptyCache
          /\ getCacheSizes(caches, cachedSatelliteInfo,
                           cachedAntemeridianCrossings, cachedOrbitTracks,
                           cachedGroundTrack) = <<0, 0, 0, 0>>
    /\ (/\ prev.op = "clearCache"
        /\ last.op \in OrbitOps \cup {"getSatelliteInfo"})
       => ~last.hit

\* C2: an orbit-track call returns the coordinate sequence that a computation
\* with an empty orbit-track cache returns for the same tle, startTimeMS,
\* stepMS, maxTimeMS and isLngLatFormat, whatever was called before.
C2_OrbitTrackCacheTransparent ==
    last.op \in OrbitOps
    => \A now \in Clock :
          last.out = getOrbitTrackSync(last.arg.tle, last.arg.startTimeMS,
                                       last.arg.stepMS, last.arg.maxTimeMS,
                                       last.arg.isLngLatFormat, now, Sgp,
                                       EmptyCache).out

\* C3: getSatelliteInfo returns the values that a computation with empty
\* caches returns for the same arguments, for every TLE including one that
\* shares its line 1 with a TLE used earlier.
C3_SatelliteInfoCacheTransparent ==
    last.op = "getSatelliteInfo"
    => last.out = getSatelliteInfo(last.arg.tle, last.arg.timestamp,
                                   last.arg.observerLat, Undefined, Undefined,
                                   last.arg.now, FreshSgp).out

(***************************************************************************)
(* computeChecksum applied to arbitrary short lines.                       *)
(***************************************************************************)
MaxLineLen == 3

ChecksumAlphabet == {"0", "7", "9", "-", "+", ".", " ", "A"}

ChecksumLines ==
    UNION {[1..n -> ChecksumAlphabet] : n \in 0..MaxLineLen}

ComputeChecksum(tleLineStr) ==
    /\ last' = [op |-> "computeChecksum", arg |-> tleLineStr,
                out |-> computeChecksum(tleLineStr)]
    /\ UNCHANGED <<prev, nCalls, parseVars, sgpVars>>

ChecksumNext == \E line \in ChecksumLines : ComputeChecksum(line)

SpecChecksum == Init /\ [][ChecksumNext]_vars

\* What a character counts in the checksum: a decimal digit its value, "-"
\* one, every other character nothing.
CharWeight(c) ==
    IF c \in Digits THEN CHOOSE d \in 0..9 : DigitChar(d) = c
    ELSE IF c = "-" THEN 1
    ELSE 0

RECURSIVE WeightOfPrefix(_, _)
WeightOfPrefix(line, n) ==
    IF n = 0 THEN 0 ELSE WeightOfPrefix(line, n - 1) + CharWeight(line[n])

\* C11: for a line of at least two characters computeChecksum returns the sum
\* of the digits plus the number of "-" among all characters but the last,
\* modulo 10; the last character has no influence.
C11_ChecksumFormula ==
    (last.op = "computeChecksum" /\ Len(last.arg) >= 2)
    => last.out = Ret(WeightOfPrefix(last.arg, Len(last.arg) - 1) % 10)

\* A line with digits summing beyond 10 and a final digit that would change
\* the sum was checked.
C11_Witness ==
    /\ last.op = "computeChecksum"
    /\ last.arg = <<"9", "7", "9">>
    /\ last.out = Ret(6)

(***************************************************************************)
(* Claims about the orbit tracks.                                          *)
(***************************************************************************)
\* C12: the promise of getOrbitTrack resolves to the coordinate sequence that
\* getOrbitTrackSync returns for the same arguments, for every sleepMS and
\* jobChunkSize and whatever other calls run while the call is suspended.
C12_AsyncEqualsSync ==
    last.op = "getOrbitTrack" => last.out = last.sync

(***************************************************************************)
(* The crossing search and the ground tracks.                              *)
(***************************************************************************)
MaxTrackCalls == 2

TrackClock == {85000000}

SlowTLE == ArrIn(<<L1, L2slow>>)
GeoTLE == ArrIn(<<L1b, L2b>>)
FarTLE == ArrIn(<<L1c, L2far>>)
VeryFarTLE == ArrIn(<<L1d, L2vfar>>)

\* <<tle, timeMS>> of the getLastAntemeridianCrossingTimeMS calls.
SearchInputs ==
    {SlowTLE, FarTLE} \X {Num(79300000), Num(90000000), Undefined}

\* <<tle, reference time, stepMS, isLngLatFormat>> of the ground-track calls.
TrackInputs ==
    ({SlowTLE} \X {Num(90000000), Undefined} \X {270000} \X {TRUE, FALSE})
        \cup {<<GeoTLE, Num(90000000), 270000, FALSE>>,
              <<VeryFarTLE, Num(112500000), 270000, TRUE>>}

SearchArg(tle, timeMS, now) == [tle |-> tle, timeMS |-> timeMS, now |-> now]

\* The effect of a finished crossing search with outcome r.
SearchEffect(arg, r) ==
    /\ tleCache' = r.st.cache
    /\ heap' = r.st.heap
    /\ cachedSatelliteInfo' = r.st.info
    /\ cachedAntemeridianCrossings' = r.crossings
    /\ last' = [op |-> "getLastAntemeridianCrossingTimeMS", arg |-> arg,
                out |-> r.out, hit |-> r.hit, tries |-> r.tries,
                crossed |-> r.crossed, seen |-> r.seen,
                curTimeMS |-> r.curTimeMS]
    /\ prev' = last
    /\ task' = NoTask
    /\ UNCHANGED <<cachedOrbitTracks, cachedGroundTrack, caches>>

GetLastAntemeridianCrossingTimeMS(tle, timeMS, now) ==
    /\ nCalls < MaxTrackCalls
    /\ nCalls' = nCalls + 1
    /\ SearchEffect(SearchArg(tle, timeMS, now),
                    getLastAntemeridianCrossingTimeMS(
                        tle, timeMS, now, Sgp, cachedAntemeridianCrossings))

\* The effect of a ground-track call with outcome r.  The record of the call
\* keeps, as sync, what getGroundTracksSync returns for the same arguments in
\* the state the call was made in.
TracksEffect(op, arg, r, sync) ==
    /\ tleCache' = r.st.cache
    /\ heap' = r.st.heap
    /\ cachedSatelliteInfo' = r.st.info
    /\ cachedAntemeridianCrossings' = r.crossings
    /\ cachedOrbitTracks' = r.tracks
    /\ last' = [op |-> op, arg |-> arg, out |-> r.out, found |-> r.found,
                sync |-> sync]
    /\ prev' = last
    /\ nCalls' = nCalls + 1
    /\ UNCHANGED <<cachedGroundTrack, caches, task>>

TracksArg(tle, timeMS, stepMS, isLngLatFormat, now) ==
    [tle |-> tle, timeMS |-> timeMS, stepMS |-> stepMS,
     isLngLatFormat |-> isLngLatFormat, now |-> now]

GetGroundTracks(tle, startTimeMS, stepMS, isLngLatFormat, now) ==
    /\ nCalls < MaxTrackCalls
    /\ TracksEffect("getGroundTracks",
                    TracksArg(tle, startTimeMS, stepMS, isLngLatFormat, now),
                    getGroundTracks(tle, startTimeMS, stepMS, isLngLatFormat,
                                    now, Sgp, cachedAntemeridianCrossings,
                                    cachedOrbitTracks),
                    getGroundTracksSync(tle, stepMS, startTimeMS,
                                        isLngLatFormat, now, Sgp,
                                        cachedAntemeridianCrossings,
                                        cachedOrbitTracks).out)

SyncTracksEffect(arg, r) == TracksEffect("getGroundTracksSync", arg, r, r.out)

GetGroundTracksSync(tle, stepMS, optionalTimeMS, isLngLatFormat, now) ==
    /\ nCalls < MaxTrackCalls
    /\ SyncTracksEffect(TracksArg(tle, optionalTimeMS, stepMS, isLngLatFormat,
                                  now),
                        getGroundTracksSync(tle, stepMS, optionalTimeMS,
                                            isLngLatFormat, now, Sgp,
                                            cachedAntemeridianCrossings,
                                            cachedOrbitTracks))

TracksNext ==
    \/ \E i \in SearchInputs, now \in TrackClock :
           GetLastAntemeridianCrossingTimeMS(i[1], i[2], now)
    \/ \E i \in TrackInputs, now \in TrackClock :
           GetGroundTracks(i[1], i[2], i[3], i[4], now)
    \/ \E i \in TrackInputs, now \in TrackClock :
           GetGroundTracksSync(i[1], i[3], i[2], i[4], now)

SpecTracks == Init /\ [][TracksNext]_vars

(***************************************************************************)
(* Claims about the ground tracks and the crossing search.                 *)
(***************************************************************************)
\* C13: for the same tle, reference time, stepMS and isLngLatFormat, the
\* promise of getGroundTracks resolves to the value getGroundTracksSync
\* returns, when a crossing is found and in the no-crossing mode.
C13_GroundTracksAsyncEqualsSync ==
    last.op = "getGroundTracks" => last.out = last.sync

\* C14: getGroundTracks and getGroundTracksSync give a list of exactly three
\* orbit tracks when the crossing search for the reference time finds a
\* crossing, and a list of exactly one orbit track, sampled every 60,000 ms
\* up to 21,600,000 ms, when that search returns -1.
GroundTrackOps == {"getGroundTracks", "getGroundTracksSync"}

PartialTrackLength == (_MS_IN_A_DAY \div 4) \div _MS_IN_A_MINUTE + 1

C14_TrackListShape ==
    (last.op \in GroundTrackOps /\ last.out.kind = "return")
        => IF last.found THEN Len(last.out.val) = 3
           ELSE /\ Len(last.out.val) = 1
                /\ Len(last.out.val[1]) <= PartialTrackLength

\* C15: getLastAntemeridianCrossingTimeMS returns -1 exactly when its search
\* used up the maximum number of passes without any pair of consecutive
\* samples registering a crossing; when a crossing was registered the result
\* is a timestamp.
C15_MinusOneIffNoCrossing ==
    (/\ last.op = "getLastAntemeridianCrossingTimeMS"
     /\ last.out.kind = "return"
     /\ ~last.hit)
        => (last.out.val = -1 <=> (last.crossed = 0 /\ last.tries > maxTries))

(***************************************************************************)
(* The crossing search on its own, from more reference times.              *)
(***************************************************************************)
\* The reference times of the searches of the slow satellite.
SearchTimes == 8

SearchCallInputs ==
    ({SlowTLE} \X {Num(90000000 + 100000 * k) : k \in 1..SearchTimes})
        \cup {<<FarTLE, Num(79300000)>>, <<GeoTLE, Num(90000000)>>}

SearchNext ==
    \E i \in SearchCallInputs, now \in TrackClock :
        GetLastAntemeridianCrossingTimeMS(i[1], i[2], now)

SpecSearch == Init /\ [][SearchNext]_vars

\* C16: every call of getLastAntemeridianCrossingTimeMS terminates after
\* sampling the satellite position at most 1001 times.
C16_SearchSamplesBounded ==
    last.op = "getLastAntemeridianCrossingTimeMS" => last.tries <= maxTries + 1

\* A search that took all 1001 samples has returned.
C16_Witness ==
    /\ last.op = "getLastAntemeridianCrossingTimeMS"
    /\ last.tries = maxTries + 1
    /\ last.out = Ret(-1)

(***************************************************************************)
(* Orbit tracks with and without a ceiling.                                *)
(***************************************************************************)
\* <<startTimeMS, stepMS, maxTimeMS, isLngLatFormat>>
CeilingInputs == { <<600, 500, 1500, TRUE>>, <<600, 500, 0, TRUE>> }

CeilingClock == {1500}

CeilingNext ==
    \/ \E tle \in OrbitTLEs, i \in CeilingInputs, now \in CeilingClock :
           GetOrbitTrackSync(tle, i[1], i[2], i[3], i[4], now)
    \/ \E tle \in OrbitTLEs, i \in CeilingInputs, now \in CeilingClock :
           GetOrbitTrack(tle, i[1], i[2], 0, DefaultJobChunkSize, i[3], i[4],
                         now)

SpecCeiling == Init /\ [][CeilingNext]_vars

\* C17: getOrbitTrack and getOrbitTrackSync end with a finite coordinate
\* sequence for every orbit, every stepMS > 0 and every maxTimeMS >= 0, and
\* no sample they return lies more than maxTimeMS after startTimeMS.
C17_TrackEndsWithinCeiling ==
    (last.op \in OrbitOps /\ ~last.hit)
        => /\ last.out.kind # "running"
           /\ (last.out.kind = "return" /\ Len(last.out.val) > 0)
                  => (Len(last.out.val) - 1) * last.arg.stepMS
                         <= last.arg.maxTimeMS

(***************************************************************************)
(* getVisibleSatellites.                                                   *)
(***************************************************************************)
MaxVisibleCalls == 2

\* At 1500 ms, seen from longitude 100: a decayed satellite, one below the
\* horizon, and satellites at 10 and at 80 degrees of elevation.
DecayedTLE == ArrIn(<<L1c, L2dec>>)
BelowTLE == ArrIn(<<L1, L2>>)
LowTLE == ArrIn(<<L1b, L2b>>)
HighTLE == ArrIn(<<L1, L2b>>)
High2TLE == ArrIn(<<L1b, L2>>)

VisibleLists ==
    { <<>>, <<DecayedTLE, BelowTLE, High2TLE>>, <<LowTLE, HighTLE>>,
      <<HighTLE, LowTLE>>, <<NumIn(2), LowTLE>>, <<LowTLE, LowTLE>> }

Thresholds == {Undefined, Num(80)}

VisibleObserverLng == Num(100 * UnitsPerDegree)

VisibleClock == {1500}

GetVisibleSatellites(tles, elevationThreshold, now) ==
    /\ nCalls < MaxVisibleCalls
    /\ LET r == getVisibleSatellites(Undefined, VisibleObserverLng, Undefined,
                                     tles, elevationThreshold, Undefined, now,
                                     Sgp)
       IN  /\ tleCache' = r.st.cache
           /\ heap' = r.st.heap
           /\ cachedSatelliteInfo' = r.st.info
           /\ last' = [op |-> "getVisibleSatellites",
                       arg |-> [tles |-> tles,
                                elevationThreshold |-> elevationThreshold,
                                now |-> now],
                       out |-> Ret(r.visibleSats), infos |-> r.infos]
    /\ prev' = last
    /\ nCalls' = nCalls + 1
    /\ UNCHANGED <<cachedAntemeridianCrossings, cachedOrbitTracks,
                   cachedGroundTrack, caches, task>>

VisibleNext ==
    \E tles \in VisibleLists, t \in Thresholds, now \in VisibleClock :
        GetVisibleSatellites(tles, t, now)

SpecVisible == Init /\ [][VisibleNext]_vars

\* C18: getVisibleSatellites returns, in input order, exactly one entry for
\* each input TLE whose getSatelliteInfo call succeeds with an elevation of
\* at least elevationThreshold; an entry whose parsing or propagation throws
\* is skipped and never makes the call throw.
RECURSIVE SuccessfulAbove(_, _, _)
SuccessfulAbove(tles, infos, threshold) ==
    IF tles = <<>> THEN <<>>
    ELSE (IF Head(infos).kind = "return"
             /\ Head(infos).val.elevation >= threshold
          THEN <<[tleArr |-> Head(tles), info |-> Head(infos).val]>>
          ELSE <<>>)
             \o SuccessfulAbove(Tail(tles), Tail(infos), threshold)

ThresholdOf(call) ==
    IF call.arg.elevationThreshold = Undefined THEN 0
    ELSE call.arg.elevationThreshold[1]

C18_VisibleAreTheSuccessful ==
    last.op = "getVisibleSatellites"
        => /\ last.out.kind = "return"
           /\ Len(last.infos) = Len(last.arg.tles)
           /\ last.out.val = SuccessfulAbove(last.arg.tles, last.infos,
                                             ThresholdOf(last))

\* A call whose first TLE threw, whose second was below the threshold and
\* whose third was exactly at the threshold returned the third alone.
C18_Witness ==
    /\ last.op = "getVisibleSatellites"
    /\ last.arg.tles = <<DecayedTLE, BelowTLE, High2TLE>>
    /\ last.arg.elevationThreshold = Num(80)
    /\ last.infos[1].kind = "throw"
    /\ last.infos[2].kind = "return" /\ last.infos[2].val.elevation < 80
    /\ last.infos[3].kind = "return" /\ last.infos[3].val.elevation = 80
    /\ Len(last.out.val) = 1
    /\ last.out.val[1].tleArr = High2TLE

(***************************************************************************)
(* Claims about getSatelliteInfo and the cache sizes.                      *)
(***************************************************************************)
\* The error code of the propagator's record for the two lines of a TLE
\* given as an array.
ErrorCodeOf(tle) == twoline2satrec(tle.arr[1], tle.arr[2]).error

\* C19: whenever the propagator's record for the TLE carries an error code,
\* getSatelliteInfo throws an error with the message of that code (a generic
\* one for a code outside 1..6), returns no result and stores nothing in
\* the satellite-info cache.
C19_PropagatorErrorThrows ==
    [][(/\ nCalls' = nCalls + 1
        /\ last'.op = "getSatelliteInfo"
        /\ ErrorCodeOf(last'.arg.tle) # 0)
           => /\ last'.out = Throw(_SAT_REC_ERRORS(ErrorCodeOf(last'.arg.tle)))
              /\ cachedSatelliteInfo' = cachedSatelliteInfo]_vars

\* C20: in every reachable state getCacheSizes() returns the numbers of
\* entries currently held by the satellite-info, antemeridian-crossing,
\* orbit-track and ground-track caches, in that order, also after clearCache()
\* was called and further results were stored.
C20_CacheSizesAreCurrent ==
    getCacheSizes(caches, cachedSatelliteInfo, cachedAntemeridianCrossings,
                  cachedOrbitTracks, cachedGroundTrack)
        = << Cardinality(DOMAIN cachedSatelliteInfo),
             Cardinality(DOMAIN cachedAntemeridianCrossings),
             Cardinality(DOMAIN cachedOrbitTracks),
             Cardinality(DOMAIN cachedGroundTrack) >>

(***************************************************************************)
(* _crossesAntemeridian applied to pairs of longitudes.                    *)
(***************************************************************************)
\* Whole degrees on both sides of the prime meridian and of 100 degrees; the
\* first argument of the first comparison of a loop is undefined.
Longitudes ==
    {Undefined} \cup {Num(d) : d \in {-179, -150, -101, -100, -50, -1, 0,
                                      1, 50, 100, 101, 150, 179}}

CrossesAntemeridian(longitude1, longitude2) ==
    /\ last' = [op |-> "_crossesAntemeridian",
                arg |-> <<longitude1, longitude2>>,
                out |-> _crossesAntemeridian(longitude1, longitude2)]
    /\ UNCHANGED <<prev, nCalls, parseVars, sgpVars>>

CrossingNext ==
    \E longitude1 \in Longitudes, longitude2 \in Longitudes :
        CrossesAntemeridian(longitude1, longitude2)

SpecCrossing == Init /\ [][CrossingNext]_vars

\* Two longitudes of opposite signs: one below zero, the other above.
OppositeSigns(a, b) == (a < 0 /\ b > 0) \/ (a > 0 /\ b < 0)

\* C22: _crossesAntemeridian(a, b) is true exactly when the longitudes a and
\* b have opposite signs and at least one of |a| and |b| is greater than 100
\* degrees.
C22_CrossingTest ==
    (/\ last.op = "_crossesAntemeridian"
     /\ last.arg[1] # Undefined
     /\ last.arg[2] # Undefined)
        => (last.out <=> (/\ OppositeSigns(last.arg[1][1], last.arg[2][1])
                          /\ (\/ Abs(last.arg[1][1]) > 100
                              \/ Abs(last.arg[2][1]) > 100)))

(***************************************************************************)
(* The DECIMAL_ASSUMED_E fields ("leading decimal point assumed" with a    *)
(* power of ten), decoded exactly: a decimal number is m * 10^p.           *)
(***************************************************************************)
\* The decimal number m * 10^p, m without trailing zeros.
RECURSIVE Decimal(_, _)
Decimal(m, p) ==
    IF m = 0 THEN [m |-> 0, p |-> 0]
    ELSE IF m % 10 = 0 THEN Decimal(m \div 10, p + 1)
    ELSE [m |-> m, p |-> p]

RECURSIVE DigitsValue(_)
DigitsValue(chars) ==
    IF chars = <<>> THEN 0
    ELSE 10 * DigitsValue(SubSeq(chars, 1, Len(chars) - 1))
             + ParseIntChar(chars[Len(chars)])

\* The number a text of blanks, an optional sign and digits is read as, by
\* Math.abs(str), str * x and parseInt(str, 10).
ToNumber(str) ==
    LET t == Trim(str)
    IN  IF t = <<>> THEN 0
        ELSE IF t[1] = "-" THEN -DigitsValue(Tail(t))
        ELSE IF t[1] = "+" THEN DigitsValue(Tail(t))
        ELSE DigitsValue(t)

_getDigitCount(num) == Len(NatToString(Abs(ToNumber(num))))

\* num * `0.${zeroes}1`: num times 10^-numDigits.
_toLeadingDecimal(num) == Decimal(ToNumber(num), -_getDigitCount(num))

\* float.toPrecision(5), halves away from zero.
RECURSIVE toPrecision(_, _)
toPrecision(d, n) ==
    IF Len(NatToString(Abs(d.m))) <= n THEN Decimal(d.m, d.p)
    ELSE toPrecision([m |-> IF d.m < 0 THEN -((5 - d.m) \div 10)
                            ELSE (d.m + 5) \div 10,
                      p |-> d.p + 1], n)

SignificantFigures == 5

decimalOfLeading(str, num) ==
    toPrecision([m |-> num.m,
                 p |-> num.p + ToNumber(SubstrOf(str, Len(str) - 2, 2))],
                SignificantFigures)

_decimalAssumedEToFloat(str) ==
    decimalOfLeading(str, _toLeadingDecimal(SubstrOf(str, 0, Len(str) - 2)))

\* The field texts: a sign or a blank, five mantissa digits, a signed
\* one-digit exponent.
MantissaLength == 5
MantissaDigits == {"0", "3"}
ExponentDigits == {"0", "4"}

FieldTexts ==
    { s \o m \o x \o <<e>> :
        s \in {<<" ">>, <<"-">>, <<"+">>},
        m \in [1..MantissaLength -> MantissaDigits],
        x \in {<<"-">>, <<"+">>},
        e \in ExponentDigits }

DecimalAssumedEToFloat(str) ==
    /\ last' = [op |-> "_decimalAssumedEToFloat", arg |-> str,
                out |-> _decimalAssumedEToFloat(str)]
    /\ UNCHANGED <<prev, nCalls, parseVars, sgpVars>>

DecimalNext == \E str \in FieldTexts : DecimalAssumedEToFloat(str)

SpecDecimal == Init /\ [][DecimalNext]_vars

\* +-0.d1...dn * 10^e for the field text str.
AssumedValue(str) ==
    Decimal(ToNumber(SubstrOf(str, 0, Len(str) - 2)),
            ToNumber(SubstrOf(str, Len(str) - 2, 2)) - MantissaLength)

\* C29: a DECIMAL_ASSUMED_E field text of an optional sign, mantissa digits
\* d1...dn and a signed one-digit exponent e decodes to +-0.d1...dn * 10^e:
\* the decimal point stands before the first mantissa digit, also when the
\* mantissa has leading zeros or a sign.
C29_DecimalPointBeforeFirstDigit ==
    last.op = "_decimalAssumedEToFloat" => last.out = AssumedValue(last.arg)

(***************************************************************************)
(* Claims about the arguments of getSatelliteInfo.                         *)
(***************************************************************************)
\* C30: getSatelliteInfo computes the look angles for exactly the observer
\* latitude the caller supplies, 0 included, and uses the default only for
\* an omitted argument; a supplied timestamp of 0 is used as given, not
\* replaced by the current time.  (The SatelliteInfo keeps the timestamp and
\* the observer position its look angles were computed from.)
C30_SuppliedArgumentsAreUsed ==
    (/\ last.op = "getSatelliteInfo"
     /\ last.out.kind = "return"
     /\ ~last.hit)
        => /\ last.out.val.lookAngles[4]
                = IF last.arg.observerLat = Undefined THEN DefaultObserverLat
                  ELSE last.arg.observerLat[1]
           /\ last.arg.timestamp # Undefined
                => last.out.val.lookAngles[3] = last.arg.timestamp[1]

(***************************************************************************)
(* Repeated crossing searches.  A line 1 of a real TLE has 69 characters;  *)
(* L1long is a line 1 longer than the 30 characters the crossing cache is  *)
(* looked up under.                                                        *)
(***************************************************************************)
L1long == <<"1">> \o [i \in 1..(CrossingKeyLength - 1) |-> "0"] \o <<"1">>

LongFarTLE == ArrIn(<<L1long, L2far>>)

MaxRepeatCalls == 3

\* <<tle, timeMS>> of the repeated searches.
RepeatInputs ==
    ({FarTLE, LongFarTLE} \X {Num(79300000), Num(90000000)})
        \cup ({SlowTLE} \X {Num(90000000), Num(90100000)})

\* The calls made so far, oldest first.
HistoryOf(call) == IF call.op = "none" THEN <<>> ELSE call.history

\* The effect of a finished crossing search with outcome r, the record of
\* the call keeping those of the calls before it.
RepeatEffect(arg, r) ==
    /\ tleCache' = r.st.cache
    /\ heap' = r.st.heap
    /\ cachedSatelliteInfo' = r.st.info
    /\ cachedAntemeridianCrossings' = r.crossings
    /\ last' = [op |-> "getLastAntemeridianCrossingTimeMS", arg |-> arg,
                out |-> r.out, hit |-> r.hit, tries |-> r.tries,
                crossed |-> r.crossed, seen |-> r.seen,
                curTimeMS |-> r.curTimeMS,
                history |-> Append(HistoryOf(last), <<arg, r.out>>)]
    /\ prev' = last
    /\ nCalls' = nCalls + 1
    /\ UNCHANGED <<cachedOrbitTracks, cachedGroundTrack, caches, task>>

RepeatedSearch(tle, timeMS, now) ==
    /\ nCalls < MaxRepeatCalls
    /\ RepeatEffect(SearchArg(tle, timeMS, now),
                    getLastAntemeridianCrossingTimeMS(
                        tle, timeMS, now, Sgp, cachedAntemeridianCrossings))

RepeatNext ==
    \E i \in RepeatInputs, now \in TrackClock : RepeatedSearch(i[1], i[2], now)

SpecRepeat == Init /\ [][RepeatNext]_vars

\* The call before the last was a search for the same TLE and returned.
SearchedBefore ==
    /\ last.op = "getLastAntemeridianCrossingTimeMS"
    /\ prev.op = "getLastAntemeridianCrossingTimeMS"
    /\ prev.arg.tle = last.arg.tle
    /\ prev.out.kind = "return"

\* 0 < referenceTimeMS - t < averageOrbitPeriodMS for the last call.
WithinOrbit(t) ==
    /\ 0 < last.arg.timeMS[1] - t
    /\ last.arg.timeMS[1] - t < orbitTimeOfLine(LinesOf(last.arg.tle)[2])

\* C21: once a search for a TLE has stored its outcome, a later call for the
\* same TLE finds it without sampling any position: it returns -1 at once
\* if the sentinel was stored, and a stored crossing time t at once if
\* 0 < referenceTimeMS - t < averageOrbitPeriodMS.
C21_StoredOutcomeIsReused ==
    SearchedBefore
        => /\ prev.out.val = -1
                => (last.hit /\ last.tries = 0 /\ last.out = Ret(-1))
           /\ (prev.out.val # -1 /\ WithinOrbit(prev.out.val))
                => (/\ last.hit
                    /\ last.tries = 0
                    /\ last.out.kind = "return"
                    /\ WithinOrbit(last.out.val))

\* C26: the crossing cache entry of a TLE is a list of crossing times or the
\* sentinel -1, and getLastAntemeridianCrossingTimeMS completes without
\* throwing for every sequence of calls, also when a search finds a crossing
\* for a TLE whose entry already holds the sentinel.
C26_SearchNeverThrows ==
    /\ \A tleStr \in DOMAIN cachedAntemeridianCrossings :
           \/ cachedAntemeridianCrossings[tleStr] = NoCrossing
           \/ /\ ~cachedAntemeridianCrossings[tleStr].sentinel
              /\ \A i \in DOMAIN cachedAntemeridianCrossings[tleStr].times :
                     cachedAntemeridianCrossings[tleStr].times[i] \in Int
    /\ last.op = "getLastAntemeridianCrossingTimeMS"
           => last.out.kind = "return"

\* C27: two calls of getLastAntemeridianCrossingTimeMS with the same TLE and
\* the same reference time return the same value, whatever calls were made
\* in between and whatever the crossing cache holds.
C27_SearchIsDeterministic ==
    last.op = "getLastAntemeridianCrossingTimeMS"
        => \A i, j \in DOMAIN last.history :
               (/\ last.history[i][1].tle = last.history[j][1].tle
                /\ last.history[i][1].timeMS = last.history[j][1].timeMS)
                   => last.history[i][2] = last.history[j][2]

(***************************************************************************)
(* Claims about what a crossing search returns.                            *)
(***************************************************************************)
\* The last call was a search that ran its loop and returned a time.
SearchFoundTime ==
    /\ last.op = "getLastAntemeridianCrossingTimeMS"
    /\ ~last.hit
    /\ last.out.kind = "return"
    /\ last.out.val # -1

\* The reference time of the last search, in milliseconds.
ReferenceTimeMS ==
    IF Falsy(last.arg.timeMS) THEN last.arg.now ELSE last.arg.timeMS[1]

\* C23: when a search ends with a result t other than -1, t is not later
\* than the reference time, and the search has sampled, at the returned time
\* (before its truncation to an integer) and at a time less than 1000 ms
\* earlier, two longitudes that register an antemeridian crossing.
C23_ResultIsASampledCrossing ==
    SearchFoundTime
        => /\ last.out.val <= ReferenceTimeMS
           /\ last.out.val = DateOf(last.curTimeMS)
           /\ last.seen # <<>>
           /\ last.seen[2] = last.curTimeMS
           /\ last.seen[4] < last.seen[2]
           /\ last.seen[2] - last.seen[4] < Ticks(1000)
           /\ _crossesAntemeridian(Num(last.seen[1]), Num(last.seen[3]))

\* A search has returned a time that is not a whole number of milliseconds
\* before its truncation.
C23_Witness ==
    /\ SearchFoundTime
    /\ last.tries > 9
    /\ last.curTimeMS % TicksPerMS # 0

(***************************************************************************)
(* Claims about the samples of an orbit track.                             *)
(***************************************************************************)
\* The longitude and the latitude of the satellite of tle at time ms.
LngAt(tle, ms) ==
    propagateLng(twoline2satrec(LinesOf(tle)[1], LinesOf(tle)[2]), ms)

LatAt(tle, ms) ==
    propagateLat(twoline2satrec(LinesOf(tle)[1], LinesOf(tle)[2]), ms)

\* Sample k ends the track of the call arg: it registers a crossing with
\* sample k - 1, or k * stepMS exceeds maxTimeMS.
EndsTrack(arg, k) ==
    \/ k * arg.stepMS > arg.maxTimeMS
    \/ /\ k > 0
       /\ _crossesAntemeridian(
              Num(LngAt(arg.tle, arg.startTimeMS + (k - 1) * arg.stepMS)),
              Num(LngAt(arg.tle, arg.startTimeMS + k * arg.stepMS)))

\* The samples k, k + 1, ... of the call arg up to the one that ends it.
RECURSIVE SamplesFrom(_, _)
SamplesFrom(arg, k) ==
    IF EndsTrack(arg, k) THEN <<>>
    ELSE <<IF arg.isLngLatFormat
           THEN <<LngAt(arg.tle, arg.startTimeMS + k * arg.stepMS),
                  LatAt(arg.tle, arg.startTimeMS + k * arg.stepMS)>>
           ELSE <<LatAt(arg.tle, arg.startTimeMS + k * arg.stepMS),
                  LngAt(arg.tle, arg.startTimeMS + k * arg.stepMS)>> >>
             \o SamplesFrom(arg, k + 1)

\* C24: a freshly computed orbit track consists exactly of the positions
\* sampled at startTimeMS + k * stepMS for k = 0, 1, 2, ... up to but
\* excluding the first k at which the longitudes of samples k - 1 and k
\* register an antemeridian crossing or k * stepMS exceeds maxTimeMS.
C24_TrackIsTheSamplesUpToTheEnd ==
    (last.op \in OrbitOps /\ ~last.hit)
        => last.out = Ret(SamplesFrom(last.arg, 0))

(***************************************************************************)
(* Claims about the yields of the async orbit track.                       *)
(***************************************************************************)
\* The coordinates a getOrbitTrack call had pushed when it last yielded.
SamplesAtYield == IF task.pending THEN task.c.step ELSE 0

\* C28: while it computes a track, the async getOrbitTrack yields control
\* at least once every jobChunkSize samples, for every sleepMS including 0:
\* between two yields (or its start, or its end) it never pushes more than
\* jobChunkSize coordinates.
C28_YieldsEveryChunk ==
    [][/\ task'.pending
           => task'.c.step - SamplesAtYield <= task'.c.jobChunkSize
       /\ (/\ ~task'.pending
           /\ last' # last
           /\ last'.op = "getOrbitTrack"
           /\ last'.out.kind = "return"
           /\ ~last'.hit)
           => Len(last'.out.val) - SamplesAtYield <= last'.arg.jobChunkSize]_vars

(***************************************************************************)
(* Claims about the crossing searches of the ground tracks.                *)
(***************************************************************************)
\* The orbit-track cache holds a track of the TLE of the last call that was
\* started at -1 (the cache key states the start time in seconds, "-0").
TrackFromMinusOne ==
    \E isLngLatFormat \in BOOLEAN :
        orbitTrackKey(LinesOf(last.arg.tle), -1, last.arg.stepMS,
                      isLngLatFormat) \in DOMAIN cachedOrbitTracks

\* C25: getGroundTracks and getGroundTracksSync treat a -1 result of every
\* crossing search they make, for the current, the previous and the next
\* orbit, as the no-crossing branch condition: no orbit track is built with
\* startTimeMS = -1 and no exception results from a search that returns -1.
C25_MinusOneIsNeverAStartTime ==
    last.op \in GroundTrackOps
        => (last.out.kind = "return" /\ ~TrackFromMinusOne)

====
